---- MODULE Spec2Model ----
(***************************************************************************)
(* The SemanticDB -> LSIF indexer of internal/index: the document registry *)
(* (loadDatabase), the document frames (indexDbDocs), the definitions pass  *)
(* (indexDbDefs), the uses pass (indexDbUses), the link-up loop and the     *)
(* statistics of indexer.index, and the symbol resolution cascade           *)
(* (getDefAndRefInfo), the sink the emitter writes to (jsonWriter) and the  *)
(* end of the driver (realMain).                                           *)
(*                                                                         *)
(* Strings that the code inspects character by character (symbol keys) are *)
(* sequences of one-character strings, so that strings.HasPrefix and       *)
(* strings.Replace are computed, not assumed.  LSIF identifiers are the    *)
(* natural numbers the emitter hands out.                                  *)
(***************************************************************************)
EXTENDS Integers, Sequences, FiniteSets, TLC

VARIABLES
    input,      \* the .semanticdb files in Walk order (files) and the index
                \* of the one Walk visits next (next)
    files,      \* indexer.files: uri -> fileInfo
    defs,       \* indexer.defs: symbol key -> defInfo
    refs,       \* indexer.refs: symbol key -> refResultInfo
    w,          \* the emitter: its id counter, the records it was asked to
                \* emit so far, and the jsonWriter it writes them to
    proID,      \* the project vertex id held by index()
    pc,         \* where Index() stands
    todo,       \* the uris the running loop over i.files has not visited yet
    linkDoc,    \* the uri whose link-up iteration is running ("" if none)
    linkIdx,    \* the occurrence the link-up iteration looks at next
    stats,      \* the *Stats Index() returns
    err,        \* the error Index() returns
    faults,     \* what the operating system does to this run
    outFile,    \* the file realMain created for the dump
    exit        \* the exit status of the process, -1 while it runs

vars == <<input, files, defs, refs, w, proID, pc, todo, linkDoc, linkIdx, stats, err,
          faults, outFile, exit>>

----------------------------------------------------------------------------
(* Bounds of the checked inputs *)

\* the largest number of occurrences of all loaded documents together
MaxOccs == 3

\* the latest record at which the output file starts to refuse writes
MaxFailAt == 4

\* the largest number of values the sink writes when it is driven alone
MaxWrites == 4

\* the largest number of documents of all files together, where the
\* documents and their grouping into files vary
MaxDocs == 3

----------------------------------------------------------------------------
(* Strings *)

\* HasPrefix comparing the whole string
HasPrefixWhole(s, prefix) == s = prefix

\* strings.HasPrefix(s, prefix)
HasPrefix(s, prefix) ==
    /\ Len(s) >= Len(prefix)
    /\ SubSeq(s, 1, Len(prefix)) = prefix

RECURSIVE Replace(_, _, _)
\* strings.Replace(s, old, new, -1) for a non-empty old: every
\* non-overlapping instance of old, from the left, becomes new
Replace(s, old, new) ==
    IF Len(s) < Len(old) THEN s
    ELSE IF SubSeq(s, 1, Len(old)) = old
         THEN new \o Replace(SubSeq(s, Len(old) + 1, Len(s)), old, new)
         ELSE <<Head(s)>> \o Replace(Tail(s), old, new)

\* LocalPrefix misspelt
LocalPrefixTypo == <<"l", "o", "c", "l">>

\* the literal "local" of strings.HasPrefix(key, "local")
LocalPrefix == <<"l", "o", "c", "a", "l">>

\* the back-tick character U+0060, which the module language cannot quote
BackTick == "BACKTICK"

\* const LanguageScala
LanguageScala == "scala"

----------------------------------------------------------------------------
(* Go maps *)

EmptyMap == [x \in {} |-> 0]

\* m[k] = v
Put(m, k, v) == [x \in (DOMAIN m) \cup {k} |-> IF x = k THEN v ELSE m[x]]

\* the orders in which a range loop may visit a set of map keys
Orders(S) ==
    {p \in [1..Cardinality(S) -> S] : \A i, j \in 1..Cardinality(S) : p[i] = p[j] => i = j}

----------------------------------------------------------------------------
(* jsonWriter: the sink of the emitter *)

\* no error (nil); an error has a kind and, when it names a symbol, its key
NoError == [kind |-> "", key |-> <<>>]

(* What one call of encoder.Encode(v) meets: "ok", a value that cannot be  *)
(* marshalled ("unsupported type", "unsupported value"), or a buffered     *)
(* writer that cannot hand its bytes on ("io").                            *)
MarshalErrors == {"unsupported type", "unsupported value"}
Outcomes == {"ok", "io"} \cup MarshalErrors

SinkError(kind) == [kind |-> kind, key |-> <<>>]

\* NewJSONWriter(w): no error, nothing encoded; out are the values appended
\* to the buffered writer so far
NewJSONWriter == [err |-> NoError, encoder |-> [err |-> NoError, out |-> <<>>]]

(* encoding/json Encoder.Encode(v): an encoder that met a write error      *)
(* returns that error and does nothing; a value that cannot be marshalled  *)
(* is refused and not remembered; a failing write is remembered.           *)
Encode(enc, v, outcome) ==
    IF enc.err # NoError THEN [enc |-> enc, err |-> enc.err]
    ELSE IF outcome \in MarshalErrors THEN [enc |-> enc, err |-> SinkError(outcome)]
    ELSE IF outcome = "io"
         THEN [enc |-> [enc EXCEPT !.err = SinkError("io")], err |-> SinkError("io")]
         ELSE [enc |-> [enc EXCEPT !.out = Append(@, v)], err |-> NoError]

\* jsonWriter.Write(v), lines 60-64
Write(j, v, outcome) ==
    LET r == Encode(j.encoder, v, outcome)
    IN  [err |-> IF r.err # NoError THEN r.err ELSE j.err,
         encoder |-> r.enc]

\* jsonWriter.Flush(), lines 67-77: the error it returns
Flush(j, flushFails) ==
    IF j.err # NoError THEN j.err
    ELSE IF flushFails THEN SinkError("io")
    ELSE NoError

\* a run in which the operating system refuses nothing
NoFaults == [writeFailsAt |-> 0, flushFails |-> FALSE, getwdFails |-> FALSE]

\* what the k-th Write of the run meets: the records of the emitter always
\* marshal, the buffered writer fails from the writeFailsAt-th call on
WriteOutcome(f, k) == IF f.writeFailsAt # 0 /\ k >= f.writeFailsAt THEN "io" ELSE "ok"

----------------------------------------------------------------------------
(* The protocol emitter (github.com/sourcegraph/.../lsif/protocol.Emitter) *)

(* One LSIF record.  id, type, label, outV, inVs, document, property and   *)
(* payload are what is written; pass, uri and occ are not written: they    *)
(* record which step of index() made the call and for which occurrence of  *)
(* which document, so that properties can speak of "the records emitted    *)
(* for an occurrence".  An absent id is 0, an absent list is <<>>.  inVs is *)
(* the list of ids of the edge, for a contains edge the bag of its ids.    *)
Tag(pass, uri, occ) == [pass |-> pass, uri |-> uri, occ |-> occ]

Vertex(label, payload, tag) ==
    [id |-> 0, type |-> "vertex", label |-> label, outV |-> 0, inVs |-> <<>>,
     document |-> 0, property |-> "", payload |-> payload,
     pass |-> tag.pass, uri |-> tag.uri, occ |-> tag.occ]

Edge(label, outV, inVs, document, property, tag) ==
    [id |-> 0, type |-> "edge", label |-> label, outV |-> outV, inVs |-> inVs,
     document |-> document, property |-> property, payload |-> <<>>,
     pass |-> tag.pass, uri |-> tag.uri, occ |-> tag.occ]

\* the emitter after construction: NewEmitter(NewJSONWriter(w))
NewEmitter == [id |-> 0, out |-> <<>>, jw |-> NewJSONWriter]

\* Emit writing the record under the id of the record before it
EmitStaleID(e, rec) ==
    [id |-> e.id + 1, out |-> Append(e.out, [rec EXCEPT !.id = e.id]), jw |-> e.jw]

(* every Emit* call: take the next id and hand one record carrying it to   *)
(* the writer; out keeps the records handed over, and Written applies      *)
(* their writes to the sink jw at the end of the step that emitted them    *)
Emit(e, rec) ==
    [id |-> e.id + 1, out |-> Append(e.out, [rec EXCEPT !.id = e.id + 1]), jw |-> e.jw]

RECURSIVE WriteAll(_, _, _)
\* the sink after the writes of the records from..to, named by their ids
WriteAll(j, from, to) ==
    IF from > to THEN j
    ELSE CHOOSE r \in {WriteAll(x, from + 1, to) :
                          x \in {Write(j, from, WriteOutcome(faults, from))}} : TRUE

\* the emitter e1 that a step has made of e0, its new records written
Written(e0, e1) == [e1 EXCEPT !.jw = WriteAll(e0.jw, e0.id + 1, e1.id)]

\* Emitter.NumElements()
NumElements(e) == e.id

EmitMetaData(e, root, tag) == Emit(e, Vertex("metaData", <<root>>, tag))
EmitProject(e, language, tag) == Emit(e, Vertex("project", <<language>>, tag))
EmitDocument(e, language, path, tag) == Emit(e, Vertex("document", <<language, path>>, tag))
EmitRange(e, startEnd, tag) == Emit(e, Vertex("range", startEnd, tag))
EmitResultSet(e, tag) == Emit(e, Vertex("resultSet", <<>>, tag))
EmitDefinitionResult(e, tag) == Emit(e, Vertex("definitionResult", <<>>, tag))
EmitReferenceResult(e, tag) == Emit(e, Vertex("referenceResult", <<>>, tag))
EmitHoverResult(e, contents, tag) == Emit(e, Vertex("hoverResult", contents, tag))
EmitNext(e, outV, inV, tag) == Emit(e, Edge("next", outV, <<inV>>, 0, "", tag))
EmitTextDocumentDefinition(e, outV, inV, tag) ==
    Emit(e, Edge("textDocument/definition", outV, <<inV>>, 0, "", tag))
EmitTextDocumentReferences(e, outV, inV, tag) ==
    Emit(e, Edge("textDocument/references", outV, <<inV>>, 0, "", tag))
EmitTextDocumentHover(e, outV, inV, tag) ==
    Emit(e, Edge("textDocument/hover", outV, <<inV>>, 0, "", tag))
EmitItem(e, outV, inVs, docID, tag) == Emit(e, Edge("item", outV, inVs, docID, "", tag))
EmitItemOfDefinitions(e, outV, inVs, docID, tag) ==
    Emit(e, Edge("item", outV, inVs, docID, "definitions", tag))
EmitItemOfReferences(e, outV, inVs, docID, tag) ==
    Emit(e, Edge("item", outV, inVs, docID, "references", tag))
\* the inVs of a contains edge are kept as a bag, see AllRanges
EmitContains(e, outV, inVs, tag) == Emit(e, Edge("contains", outV, inVs, 0, "", tag))

----------------------------------------------------------------------------
(* SemanticDB input *)

DEFINITION == "DEFINITION"
REFERENCE == "REFERENCE"
\* pb.SymbolOccurrence_UNKNOWN_ROLE
UNKNOWN_ROLE == "UNKNOWN_ROLE"

\* helper.go convertRange: the four int32 fields become the ints of two Pos
convertRange(r) ==
    <<[Line |-> r.StartLine, Character |-> r.StartCharacter],
      [Line |-> r.EndLine, Character |-> r.EndCharacter]>>

\* GetDisplayName showing the key's place in the table where the symbol is
\* absent
GetDisplayNameOrMissing(symbols, key) ==
    IF key \in DOMAIN symbols THEN symbols[key].DisplayName ELSE "<missing>"

\* SymbolInformation.GetDisplayName() of fi.symbols[key]: the getter of a
\* nil *SymbolInformation (key absent from the map) returns ""
GetDisplayName(symbols, key) ==
    IF key \in DOMAIN symbols THEN symbols[key].DisplayName ELSE ""

----------------------------------------------------------------------------
(* indexer.loadDatabase *)

\* &fileInfo{document, symbols, localDefs: {}, localRefs: {}}; the other
\* fields have Go's zero values
NewFileInfo(document, symbols) ==
    [document    |-> document,
     symbols     |-> symbols,
     docID       |-> 0,
     defRangeIDs |-> <<>>,
     useRangeIDs |-> <<>>,
     localDefs   |-> EmptyMap,
     localRefs   |-> EmptyMap]

RECURSIVE BuildSymbolsOverwrite(_, _, _)
\* BuildSymbols without the check for a key seen before
BuildSymbolsOverwrite(list, k, symbols) ==
    IF k > Len(list)
    THEN [err |-> NoError, symbols |-> symbols]
    ELSE BuildSymbolsOverwrite(list, k + 1, Put(symbols, list[k].Symbol, list[k]))

RECURSIVE BuildSymbols(_, _, _)
\* the loop over document.GetSymbols(), from its k-th element on
BuildSymbols(list, k, symbols) ==
    IF k > Len(list)
    THEN [err |-> NoError, symbols |-> symbols]
    ELSE LET key == list[k].Symbol
         IN  IF key \in DOMAIN symbols
             THEN [err |-> [kind |-> "duplicate symbol", key |-> key], symbols |-> symbols]
             ELSE BuildSymbols(list, k + 1, Put(symbols, key, list[k]))

RECURSIVE LoadDocumentsFirstWins(_, _, _)
\* LoadDocuments keeping the fileInfo a uri already has
LoadDocumentsFirstWins(documents, k, fs) ==
    IF k > Len(documents)
    THEN [err |-> NoError, files |-> fs]
    ELSE LET b == BuildSymbols(documents[k].Symbols, 1, EmptyMap)
         IN  IF b.err # NoError
             THEN [err |-> b.err, files |-> fs]
             ELSE LoadDocumentsFirstWins(documents, k + 1,
                    IF documents[k].Uri \in DOMAIN fs THEN fs
                    ELSE Put(fs, documents[k].Uri, NewFileInfo(documents[k], b.symbols)))

RECURSIVE LoadDocuments(_, _, _)
\* the loop over textDocuments.GetDocuments(), from its k-th element on
LoadDocuments(documents, k, fs) ==
    IF k > Len(documents)
    THEN [err |-> NoError, files |-> fs]
    ELSE LET b == BuildSymbols(documents[k].Symbols, 1, EmptyMap)
         IN  IF b.err # NoError
             THEN [err |-> b.err, files |-> fs]
             ELSE LoadDocuments(documents, k + 1,
                                Put(fs, documents[k].Uri, NewFileInfo(documents[k], b.symbols)))

----------------------------------------------------------------------------
(* indexer.indexDbDefs *)

\* AppendDef storing the new range in place of the list
AppendDefOverwrite(refResult, docID, rangeID) ==
    [refResult EXCEPT !.defRangeIDs = Put(@, docID, <<rangeID>>)]

\* AppendDef leaving the defining range out
AppendDefDropped(refResult, docID, rangeID) == refResult

\* lines 372-375:
\* refResult.defRangeIDs[docID] = append(refResult.defRangeIDs[docID], rangeID)
AppendDef(refResult, docID, rangeID) ==
    LET old == IF docID \in DOMAIN refResult.defRangeIDs
               THEN refResult.defRangeIDs[docID] ELSE <<>>
    IN  [refResult EXCEPT !.defRangeIDs = Put(@, docID, Append(old, rangeID))]

\* the body of the loop over fi.document.GetOccurrences() for occurrence k;
\* st holds the emitter, the fileInfo, i.defs, i.refs and the local rangeIDs
DefsOccurrence(st, uri, k) ==
    LET fi         == st.fi
        occurrence == fi.document.Occurrences[k]
    IN  IF occurrence.Role # DEFINITION THEN st
        ELSE
        LET tag       == Tag("D", uri, k)
            key       == occurrence.Symbol
            isLocal   == HasPrefix(key, LocalPrefix)
            w1        == EmitRange(st.w, convertRange(occurrence.Range), tag)
            rangeID   == w1.id
            m         == IF isLocal THEN fi.localRefs ELSE st.refs
            ok        == key \in DOMAIN m
            w2        == IF ok THEN w1 ELSE EmitResultSet(w1, tag)
            created   == IF ok THEN m[key]
                         ELSE [resultSetID |-> w2.id,
                               defRangeIDs |-> EmptyMap,
                               refRangeIDs |-> EmptyMap]
            refResult == AppendDef(created, fi.docID, rangeID)
            m1        == Put(m, key, refResult)
            w3        == EmitNext(w2, rangeID, refResult.resultSetID, tag)
            w4        == EmitDefinitionResult(w3, tag)
            defResultID == w4.id
            w5        == EmitTextDocumentDefinition(w4, refResult.resultSetID, defResultID, tag)
            w6        == EmitItem(w5, defResultID, <<rangeID>>, fi.docID, tag)
            def       == [docID       |-> fi.docID,
                          rangeID     |-> rangeID,
                          resultSetID |-> refResult.resultSetID,
                          defResultID |-> defResultID]
            contents  == <<[Language |-> "scala",
                            Value    |-> GetDisplayName(fi.symbols, key)]>>
            w7        == EmitHoverResult(w6, contents, tag)
            hoverResultID == w7.id
            w8        == EmitTextDocumentHover(w7, refResult.resultSetID, hoverResultID, tag)
        IN  [w    |-> w8,
             fi   |-> IF isLocal
                      THEN [fi EXCEPT !.localRefs = m1, !.localDefs = Put(@, key, def)]
                      ELSE fi,
             defs |-> IF isLocal THEN st.defs ELSE Put(st.defs, key, def),
             refs |-> IF isLocal THEN st.refs ELSE m1,
             \* appended at line 350 and again at line 404
             rangeIDs |-> st.rangeIDs \o <<rangeID>> \o <<rangeID>>]

RECURSIVE DefsLoop(_, _, _)
DefsLoop(st, uri, k) ==
    IF k > Len(st.fi.document.Occurrences) THEN st
    ELSE DefsLoop(DefsOccurrence(st, uri, k), uri, k + 1)

\* indexDbDefs(uri, fi, proID): the state it leaves
indexDbDefs(e, fi, ds, rs, uri) ==
    LET st == DefsLoop([w |-> e, fi |-> fi, defs |-> ds, refs |-> rs, rangeIDs |-> <<>>],
                       uri, 1)
    IN  [w    |-> st.w,
         fi   |-> [st.fi EXCEPT !.defRangeIDs = @ \o st.rangeIDs],
         defs |-> st.defs,
         refs |-> st.refs]

----------------------------------------------------------------------------
(* indexer.getDefAndRefInfo *)

\* a nil *defInfo
NilDef == [docID |-> 0, rangeID |-> 0, resultSetID |-> 0, defResultID |-> 0]

\* CascadeKeys with a fourth key, both rewrites applied
CascadeKeysCombined(symbol) ==
    <<symbol,
      Replace(symbol, <<".">>, <<"#">>),
      Replace(Replace(symbol, <<"_", "=">>, <<>>), <<BackTick>>, <<>>),
      Replace(Replace(Replace(symbol, <<".">>, <<"#">>), <<"_", "=">>, <<>>), <<BackTick>>, <<>>)>>

\* CascadeKeys without the field assignment key
CascadeKeysNoAccessor(symbol) ==
    <<symbol, Replace(symbol, <<".">>, <<"#">>)>>

\* CascadeKeys without the pattern matching case class key
CascadeKeysNoCaseClass(symbol) ==
    <<symbol, Replace(Replace(symbol, <<"_", "=">>, <<>>), <<BackTick>>, <<>>)>>

\* keys := []string{symbol, Replace(symbol, ".", "#"),
\*                  Replace(Replace(symbol, "_=", ""), <back-tick>, "")}
CascadeKeys(symbol) ==
    <<symbol,
      Replace(symbol, <<".">>, <<"#">>),
      Replace(Replace(symbol, <<"_", "=">>, <<>>), <<BackTick>>, <<>>)>>

RECURSIVE FirstHit(_, _, _)
\* for _, k := range keys: the index of the first key found in i.defs, 0 if none
FirstHit(keys, k, ds) ==
    IF k > Len(keys) THEN 0
    ELSE IF keys[k] \in DOMAIN ds THEN k
    ELSE FirstHit(keys, k + 1, ds)

\* getDefAndRefInfo finding a global definition only from a document that
\* was registered after the document of the definition
getDefAndRefInfoEarlierOnly(fi, ds, rs, symbol) ==
    IF symbol \in DOMAIN fi.localDefs
    THEN [found |-> TRUE, def |-> fi.localDefs[symbol], local |-> TRUE, key |-> symbol,
          hasRef |-> symbol \in DOMAIN fi.localRefs]
    ELSE LET keys == CascadeKeys(symbol)
             h    == FirstHit(keys, 1, ds)
         IN  IF h = 0 \/ (h # 0 /\ ds[keys[h]].docID > fi.docID)
             THEN [found |-> FALSE, def |-> NilDef, local |-> FALSE, key |-> <<>>,
                   hasRef |-> FALSE]
             ELSE [found |-> TRUE, def |-> ds[keys[h]], local |-> FALSE, key |-> keys[h],
                   hasRef |-> keys[h] \in DOMAIN rs]

(* The pair (def, refResult) the function returns.  The pointers are       *)
(* modelled by what they point to: found tells def from nil, local and key *)
(* name the table entry refResult points into, hasRef tells it from nil.   *)
getDefAndRefInfo(fi, ds, rs, symbol) ==
    IF symbol \in DOMAIN fi.localDefs
    THEN [found |-> TRUE, def |-> fi.localDefs[symbol], local |-> TRUE, key |-> symbol,
          hasRef |-> symbol \in DOMAIN fi.localRefs]
    ELSE LET keys == CascadeKeys(symbol)
             h    == FirstHit(keys, 1, ds)
         IN  IF h = 0
             THEN [found |-> FALSE, def |-> NilDef, local |-> FALSE, key |-> <<>>,
                   hasRef |-> FALSE]
             ELSE [found |-> TRUE, def |-> ds[keys[h]], local |-> FALSE, key |-> keys[h],
                   hasRef |-> keys[h] \in DOMAIN rs]

----------------------------------------------------------------------------
(* indexer.indexDbUses *)

\* AppendRef storing the new range in place of the list
AppendRefOverwrite(refResult, docID, rangeID) ==
    [refResult EXCEPT !.refRangeIDs = Put(@, docID, <<rangeID>>)]

\* lines 435-438:
\* refResult.refRangeIDs[docID] = append(refResult.refRangeIDs[docID], rangeID)
AppendRef(refResult, docID, rangeID) ==
    LET old == IF docID \in DOMAIN refResult.refRangeIDs
               THEN refResult.refRangeIDs[docID] ELSE <<>>
    IN  [refResult EXCEPT !.refRangeIDs = Put(@, docID, Append(old, rangeID))]

\* EmitUnresolved routing the references edge through def.resultSetID, the
\* field of a nil def read as 0, instead of the range
EmitUnresolvedViaResultSet(e, rangeID, docID, tag) ==
    LET w2 == EmitReferenceResult(e, tag)
        refResultID == w2.id
        w3 == EmitTextDocumentReferences(w2, 0, refResultID, tag)
    IN  EmitItemOfReferences(w3, refResultID, <<rangeID>>, docID, tag)

\* lines 426-428: def == nil, the reference gets a referenceResult of its own
EmitUnresolved(e, rangeID, docID, tag) ==
    LET w2 == EmitReferenceResult(e, tag)
        refResultID == w2.id
        w3 == EmitTextDocumentReferences(w2, rangeID, refResultID, tag)
    IN  EmitItemOfReferences(w3, refResultID, <<rangeID>>, docID, tag)

\* UsesOccurrence skipping the definitions only
UsesOccurrenceNotDefinition(st, ds, uri, k) ==
    LET fi         == st.fi
        occurrence == fi.document.Occurrences[k]
    IN  IF occurrence.Role = DEFINITION THEN st
        ELSE
        LET tag     == Tag("U", uri, k)
            r       == getDefAndRefInfo(fi, ds, st.refs, occurrence.Symbol)
            w1      == EmitRange(st.w, convertRange(occurrence.Range), tag)
            rangeID == w1.id
            rangeIDs == Append(st.rangeIDs, rangeID)
        IN  IF ~r.found
            THEN [st EXCEPT !.w = EmitUnresolved(w1, rangeID, fi.docID, tag),
                            !.rangeIDs = rangeIDs]
            ELSE LET w2 == EmitNext(w1, rangeID, r.def.resultSetID, tag)
                 IN  [w    |-> w2,
                      fi   |-> IF r.hasRef /\ r.local
                               THEN [fi EXCEPT !.localRefs[r.key] = AppendRef(@, fi.docID, rangeID)]
                               ELSE fi,
                      refs |-> IF r.hasRef /\ ~r.local
                               THEN [st.refs EXCEPT ![r.key] = AppendRef(@, fi.docID, rangeID)]
                               ELSE st.refs,
                      rangeIDs |-> rangeIDs]

\* UsesOccurrence taking the range of the definition for a reference that
\* resolves, instead of emitting a range of its own
UsesOccurrenceSharedRange(st, ds, uri, k) ==
    LET fi         == st.fi
        occurrence == fi.document.Occurrences[k]
    IN  IF occurrence.Role # REFERENCE THEN st
        ELSE
        LET tag     == Tag("U", uri, k)
            r       == getDefAndRefInfo(fi, ds, st.refs, occurrence.Symbol)
            w1      == IF r.found THEN st.w
                       ELSE EmitRange(st.w, convertRange(occurrence.Range), tag)
            rangeID == IF r.found THEN r.def.rangeID ELSE w1.id
            rangeIDs == Append(st.rangeIDs, rangeID)
        IN  IF ~r.found
            THEN [st EXCEPT !.w = EmitUnresolved(w1, rangeID, fi.docID, tag),
                            !.rangeIDs = rangeIDs]
            ELSE LET w2 == EmitNext(w1, rangeID, r.def.resultSetID, tag)
                 IN  [w    |-> w2,
                      fi   |-> IF r.hasRef /\ r.local
                               THEN [fi EXCEPT !.localRefs[r.key] = AppendRef(@, fi.docID, rangeID)]
                               ELSE fi,
                      refs |-> IF r.hasRef /\ ~r.local
                               THEN [st.refs EXCEPT ![r.key] = AppendRef(@, fi.docID, rangeID)]
                               ELSE st.refs,
                      rangeIDs |-> rangeIDs]

\* the body of the loop over fi.document.GetOccurrences() for occurrence k
UsesOccurrence(st, ds, uri, k) ==
    LET fi         == st.fi
        occurrence == fi.document.Occurrences[k]
    IN  IF occurrence.Role # REFERENCE THEN st
        ELSE
        LET tag     == Tag("U", uri, k)
            r       == getDefAndRefInfo(fi, ds, st.refs, occurrence.Symbol)
            w1      == EmitRange(st.w, convertRange(occurrence.Range), tag)
            rangeID == w1.id
            rangeIDs == Append(st.rangeIDs, rangeID)
        IN  IF ~r.found
            THEN [st EXCEPT !.w = EmitUnresolved(w1, rangeID, fi.docID, tag),
                            !.rangeIDs = rangeIDs]
            ELSE LET w2 == EmitNext(w1, rangeID, r.def.resultSetID, tag)
                 IN  [w    |-> w2,
                      fi   |-> IF r.hasRef /\ r.local
                               THEN [fi EXCEPT !.localRefs[r.key] = AppendRef(@, fi.docID, rangeID)]
                               ELSE fi,
                      refs |-> IF r.hasRef /\ ~r.local
                               THEN [st.refs EXCEPT ![r.key] = AppendRef(@, fi.docID, rangeID)]
                               ELSE st.refs,
                      rangeIDs |-> rangeIDs]

RECURSIVE UsesLoop(_, _, _, _)
UsesLoop(st, ds, uri, k) ==
    IF k > Len(st.fi.document.Occurrences) THEN st
    ELSE UsesLoop(UsesOccurrence(st, ds, uri, k), ds, uri, k + 1)

\* indexDbUses(uri, fi, proID): the state it leaves
indexDbUses(e, fi, ds, rs, uri) ==
    LET st == UsesLoop([w |-> e, fi |-> fi, refs |-> rs, rangeIDs |-> <<>>], ds, uri, 1)
    IN  [w    |-> st.w,
         fi   |-> [st.fi EXCEPT !.useRangeIDs = @ \o st.rangeIDs],
         refs |-> st.refs]

----------------------------------------------------------------------------
(* indexer.index: the link-up loop *)

RECURSIVE EmitItems(_, _, _, _, _, _, _)
\* for docID, rangeIDs := range m, the keys visited in the given order
EmitItems(e, property, refResultID, m, order, k, tag) ==
    IF k > Len(order) THEN e
    ELSE LET docID == order[k]
             e1 == IF property = "definitions"
                   THEN EmitItemOfDefinitions(e, refResultID, m[docID], docID, tag)
                   ELSE EmitItemOfReferences(e, refResultID, m[docID], docID, tag)
         IN  EmitItems(e1, property, refResultID, m, order, k + 1, tag)

\* LinkRefResult emitting the items of the references before those of the
\* definitions
LinkRefResultReferencesFirst(e, refResultInfo, defOrder, refOrder, tag) ==
    LET w1 == EmitReferenceResult(e, tag)
        refResultID == w1.id
        w2 == EmitTextDocumentReferences(w1, refResultInfo.resultSetID, refResultID, tag)
        w3 == EmitItems(w2, "references", refResultID, refResultInfo.refRangeIDs, refOrder, 1, tag)
    IN  EmitItems(w3, "definitions", refResultID, refResultInfo.defRangeIDs, defOrder, 1, tag)

\* lines 269-278 for one defining occurrence whose refResultInfo is not nil
LinkRefResult(e, refResultInfo, defOrder, refOrder, tag) ==
    LET w1 == EmitReferenceResult(e, tag)
        refResultID == w1.id
        w2 == EmitTextDocumentReferences(w1, refResultInfo.resultSetID, refResultID, tag)
        w3 == EmitItems(w2, "definitions", refResultID, refResultInfo.defRangeIDs, defOrder, 1, tag)
    IN  EmitItems(w3, "references", refResultID, refResultInfo.refRangeIDs, refOrder, 1, tag)

\* the set a []uint64 puts into the map union
Elems(ids) == {ids[i] : i \in 1..Len(ids)}

\* the bag of the elements of a []uint64: how often each id occurs in it
BagOf(ids) == [x \in Elems(ids) |-> Cardinality({i \in 1..Len(ids) : ids[i] = x})]

\* AllRanges without the deduplication through the map union
AllRangesNoDedup(fi) == BagOf(fi.defRangeIDs \o fi.useRangeIDs)

(* lines 283-293: allRanges holds every key of the map union once, in the  *)
(* order in which ranging over the map yields them, which Go leaves open.  *)
(* The slice is kept as the bag of its elements: what it holds and how     *)
(* often, for every such order at once.                                    *)
AllRanges(fi) == [x \in Elems(fi.defRangeIDs) \cup Elems(fi.useRangeIDs) |-> 1]

----------------------------------------------------------------------------
(* Index(): loadDatabases, then index() *)

\* PhaseAfter with the uses loop run before the definitions loop
PhaseAfterUsesFirst(phase) ==
    CASE phase = "docs" -> "uses"
      [] phase = "uses" -> "defs"
      [] phase = "defs" -> "link"
      [] phase = "link" -> "stats"

\* the order of the steps of index() that loop over i.files
PhaseAfter(phase) ==
    CASE phase = "docs" -> "defs"
      [] phase = "defs" -> "uses"
      [] phase = "uses" -> "link"
      [] phase = "link" -> "stats"

\* where index() stands once the loop `phase` has visited all but `remaining`
Advance(phase, remaining, fs) ==
    IF remaining # {} THEN [pc |-> phase, todo |-> remaining]
    ELSE IF PhaseAfter(phase) = "stats" \/ DOMAIN fs = {}
         THEN [pc |-> "stats", todo |-> {}]
         ELSE [pc |-> PhaseAfter(phase), todo |-> DOMAIN fs]

\* loadDatabases: Walk hands the next .semanticdb file to loadDatabase; its
\* error ends Index()
LoadDatabase ==
    /\ pc = "load"
    /\ input.next <= Len(input.files)
    /\ LET r == LoadDocuments(input.files[input.next], 1, files)
       IN  /\ files' = r.files
           /\ IF r.err # NoError
              THEN pc' = "failed" /\ err' = r.err
              ELSE UNCHANGED <<pc, err>>
    /\ input' = [input EXCEPT !.next = @ + 1]
    /\ UNCHANGED <<defs, refs, w, proID, todo, linkDoc, linkIdx, stats,
                   faults, outFile, exit>>

(* lines 218-224: filepath.Abs("."), whose error ends Index(), then the    *)
(* metaData and project frames.  filepath.Abs of a relative path fails     *)
(* when os.Getwd does, that is once the working directory is gone.         *)
StartIndex ==
    /\ pc = "load"
    /\ input.next > Len(input.files)
    /\ IF faults.getwdFails
       THEN /\ pc' = "failed"
            /\ err' = [kind |-> "get abspath of project root", key |-> <<>>]
            /\ UNCHANGED <<w, proID, todo>>
       ELSE LET w1 == EmitMetaData(w, "file://.", Tag("frames", "", 0))
                w2 == EmitProject(w1, LanguageScala, Tag("frames", "", 0))
                a  == Advance("docs", DOMAIN files, files)
            IN  /\ w' = Written(w, w2)
                /\ proID' = w2.id
                /\ pc' = a.pc
                /\ todo' = a.todo
                /\ err' = err
    /\ UNCHANGED <<input, files, defs, refs, linkDoc, linkIdx, stats, faults, outFile, exit>>

(* one iteration of the loop of indexDbDocs; an error of filepath.Abs(uri) *)
(* ends the loop, and index() drops the error indexDbDocs returns          *)
IndexDbDocs(uri) ==
    /\ pc = "docs"
    /\ uri \in todo
    /\ IF faults.getwdFails
       THEN LET a == Advance("docs", {}, files)
            IN  /\ pc' = a.pc
                /\ todo' = a.todo
                /\ UNCHANGED <<w, files>>
       ELSE LET w1 == EmitDocument(w, LanguageScala, uri, Tag("frames", uri, 0))
                docID == w1.id
                w2 == EmitContains(w1, proID, BagOf(<<docID>>), Tag("frames", uri, 0))
                a  == Advance("docs", todo \ {uri}, files)
            IN  /\ w' = Written(w, w2)
                /\ files' = [files EXCEPT ![uri].docID = docID]
                /\ pc' = a.pc
                /\ todo' = a.todo
    /\ UNCHANGED <<input, defs, refs, proID, linkDoc, linkIdx, stats, err,
                   faults, outFile, exit>>

\* IndexDbDefs indexing a file in a single pass: its uses are emitted in
\* the same iteration, right after its definitions
IndexDbDefsSinglePass(uri) ==
    /\ pc = "defs"
    /\ uri \in todo
    /\ LET d == indexDbDefs(w, files[uri], defs, refs, uri)
           r == indexDbUses(d.w, d.fi, d.defs, d.refs, uri)
           a == Advance("defs", todo \ {uri}, files)
       IN  /\ w' = Written(w, r.w)
           /\ files' = [files EXCEPT ![uri] = r.fi]
           /\ defs' = d.defs
           /\ refs' = r.refs
           /\ pc' = a.pc
           /\ todo' = a.todo
    /\ UNCHANGED <<input, proID, linkDoc, linkIdx, stats, err, faults, outFile, exit>>

\* one iteration of the loop at lines 227-233
IndexDbDefs(uri) ==
    /\ pc = "defs"
    /\ uri \in todo
    /\ LET r == indexDbDefs(w, files[uri], defs, refs, uri)
           a == Advance("defs", todo \ {uri}, files)
       IN  /\ w' = Written(w, r.w)
           /\ files' = [files EXCEPT ![uri] = r.fi]
           /\ defs' = r.defs
           /\ refs' = r.refs
           /\ pc' = a.pc
           /\ todo' = a.todo
    /\ UNCHANGED <<input, proID, linkDoc, linkIdx, stats, err, faults, outFile, exit>>

\* one iteration of the loop at lines 235-241
IndexDbUses(uri) ==
    /\ pc = "uses"
    /\ uri \in todo
    /\ LET r == indexDbUses(w, files[uri], defs, refs, uri)
           a == Advance("uses", todo \ {uri}, files)
       IN  /\ w' = Written(w, r.w)
           /\ files' = [files EXCEPT ![uri] = r.fi]
           /\ refs' = r.refs
           /\ pc' = a.pc
           /\ todo' = a.todo
    /\ UNCHANGED <<input, defs, proID, linkDoc, linkIdx, stats, err, faults, outFile, exit>>

\* line 245: the link-up loop takes the next file
LinkFile(uri) ==
    /\ pc = "link"
    /\ linkDoc = ""
    /\ uri \in todo
    /\ linkDoc' = uri
    /\ linkIdx' = 1
    /\ UNCHANGED <<input, files, defs, refs, w, proID, pc, todo, stats, err,
                   faults, outFile, exit>>

\* lines 250-279: one iteration of the loop over the file's occurrences
LinkOccurrence ==
    /\ pc = "link"
    /\ linkDoc # ""
    /\ linkIdx <= Len(files[linkDoc].document.Occurrences)
    /\ LET fi         == files[linkDoc]
           occurrence == fi.document.Occurrences[linkIdx]
           key        == occurrence.Symbol
           isLocal    == HasPrefix(key, LocalPrefix)
           table      == IF isLocal THEN fi.localRefs ELSE refs
       IN  IF occurrence.Role # DEFINITION \/ key \notin DOMAIN table
           THEN w' = w
           ELSE \E defOrder \in Orders(DOMAIN table[key].defRangeIDs),
                   refOrder \in Orders(DOMAIN table[key].refRangeIDs) :
                    w' = Written(w, LinkRefResult(w, table[key], defOrder, refOrder,
                                                  Tag("L", linkDoc, linkIdx)))
    /\ linkIdx' = linkIdx + 1
    /\ UNCHANGED <<input, files, defs, refs, proID, pc, todo, linkDoc, stats, err,
                   faults, outFile, exit>>

\* LinkContains emptying the file's lists of ranges once its contains edge
\* is emitted
LinkContainsConsuming ==
    /\ pc = "link"
    /\ linkDoc # ""
    /\ linkIdx > Len(files[linkDoc].document.Occurrences)
    /\ LET fi == files[linkDoc]
           a  == Advance("link", todo \ {linkDoc}, files)
       IN  /\ IF Len(fi.defRangeIDs) > 0 \/ Len(fi.useRangeIDs) > 0
              THEN w' = Written(w, EmitContains(w, fi.docID, AllRanges(fi),
                                                  Tag("L", linkDoc, 0)))
              ELSE w' = w
           /\ pc' = a.pc
           /\ todo' = a.todo
    /\ files' = [files EXCEPT ![linkDoc].defRangeIDs = <<>>, ![linkDoc].useRangeIDs = <<>>]
    /\ linkDoc' = ""
    /\ linkIdx' = 0
    /\ UNCHANGED <<input, defs, refs, proID, stats, err, faults, outFile, exit>>

\* lines 281-296: the file's contains edge, which ends its iteration
LinkContains ==
    /\ pc = "link"
    /\ linkDoc # ""
    /\ linkIdx > Len(files[linkDoc].document.Occurrences)
    /\ LET fi == files[linkDoc]
           a  == Advance("link", todo \ {linkDoc}, files)
       IN  /\ IF Len(fi.defRangeIDs) > 0 \/ Len(fi.useRangeIDs) > 0
              THEN w' = Written(w, EmitContains(w, fi.docID, AllRanges(fi),
                                                  Tag("L", linkDoc, 0)))
              ELSE w' = w
           /\ pc' = a.pc
           /\ todo' = a.todo
    /\ linkDoc' = ""
    /\ linkIdx' = 0
    /\ UNCHANGED <<input, files, defs, refs, proID, stats, err, faults, outFile, exit>>

\* SumLocalDefs counting the local definitions of one file only
SumLocalDefsOneFile(fs, uris) ==
    IF uris = {} THEN 0
    ELSE Cardinality(DOMAIN fs[CHOOSE x \in uris : TRUE].localDefs)

RECURSIVE SumLocalDefs(_, _)
\* for _, fi := range i.files { numDefs += len(fi.localDefs) }
SumLocalDefs(fs, uris) ==
    IF uris = {} THEN 0
    ELSE LET u == CHOOSE x \in uris : TRUE
         IN  Cardinality(DOMAIN fs[u].localDefs) + SumLocalDefs(fs, uris \ {u})

\* lines 299-312: numDefs, the flush, whose error ends Index(), the Stats
Finish ==
    /\ pc = "stats"
    /\ LET numDefs == Cardinality(DOMAIN defs) + SumLocalDefs(files, DOMAIN files)
           flushed == Flush(w.jw, faults.flushFails)
       IN  IF flushed # NoError
           THEN /\ pc' = "failed"
                /\ err' = [flushed EXCEPT !.kind = "emitter.Flush: " \o @]
                /\ stats' = stats
           ELSE /\ pc' = "done"
                /\ err' = err
                /\ stats' = [NumFiles    |-> Cardinality(DOMAIN files),
                              NumDefs     |-> numDefs,
                              NumElements |-> NumElements(w)]
    /\ UNCHANGED <<input, files, defs, refs, w, proID, todo, linkDoc, linkIdx,
                   faults, outFile, exit>>

(* realMain after indexer.Index() returned: an error is returned to main,  *)
(* which exits with status 1; the deferred out.Close() runs either way.    *)
RealMainReturn ==
    /\ pc \in {"done", "failed"}
    /\ pc' = "exited"
    /\ exit' = IF pc = "failed" THEN 1 ELSE 0
    /\ outFile' = [outFile EXCEPT !.open = FALSE]
    /\ UNCHANGED <<input, files, defs, refs, w, proID, todo, linkDoc, linkIdx, stats, err,
                   faults>>

Next ==
    \/ LoadDatabase
    \/ StartIndex
    \/ \E uri \in todo : IndexDbDocs(uri)
    \/ \E uri \in todo : IndexDbDefs(uri)
    \/ \E uri \in todo : IndexDbUses(uri)
    \/ \E uri \in todo : LinkFile(uri)
    \/ LinkOccurrence
    \/ LinkContains
    \/ Finish
    \/ RealMainReturn

----------------------------------------------------------------------------
(* The inputs of the checked runs *)

\* symbol keys
local1 == <<"l", "o", "c", "a", "l", "1">>
gX     == <<"g", ".", "X", "#">>

\* every occurrence covers the same span, 0:0-0:1
Span == [StartLine |-> 0, StartCharacter |-> 0, EndLine |-> 0, EndCharacter |-> 1]

Occurrence(symbol, role) == [Symbol |-> symbol, Role |-> role, Range |-> Span]

\* the occurrence lists of at most n occurrences drawn from the set K
OccurrenceLists(K, n) == UNION {[1..m -> K] : m \in 0..n}

\* a.scala declares local1 and g.X#, b.scala declares no symbol
SymbolsOf(uri) ==
    IF uri = "a.scala"
    THEN <<[Symbol |-> local1, DisplayName |-> "x"], [Symbol |-> gX, DisplayName |-> "X"]>>
    ELSE <<>>

TextDocument(uri, symbols, occurrences) ==
    [Uri |-> uri, Symbols |-> symbols, Occurrences |-> occurrences]

\* no file, one file holding a.scala, or two files holding a.scala and
\* b.scala, with at most MaxOccs occurrences in all, drawn from K
Inputs(K) ==
    {<<>>}
    \cup {<<<<TextDocument("a.scala", SymbolsOf("a.scala"), oa)>>>> :
            oa \in OccurrenceLists(K, MaxOccs)}
    \cup {<<<<TextDocument("a.scala", SymbolsOf("a.scala"), p[1])>>,
            <<TextDocument("b.scala", SymbolsOf("b.scala"), p[2])>>>> :
            p \in {q \in OccurrenceLists(K, MaxOccs) \X OccurrenceLists(K, MaxOccs) :
                     Len(q[1]) + Len(q[2]) <= MaxOccs}}

(* The state in which realMain calls Index(): the dump file created and   *)
(* open, the indexer as NewIndexer leaves it, the files Walk will find.    *)
InitFaulty(in, f) ==
    /\ input = [files |-> in, next |-> 1]
    /\ files = EmptyMap
    /\ defs = EmptyMap
    /\ refs = EmptyMap
    /\ w = NewEmitter
    /\ proID = 0
    /\ pc = "load"
    /\ todo = {}
    /\ linkDoc = ""
    /\ linkIdx = 0
    /\ stats = [NumFiles |-> 0, NumDefs |-> 0, NumElements |-> 0]
    /\ err = NoError
    /\ faults = f
    /\ outFile = [exists |-> TRUE, open |-> TRUE]
    /\ exit = -1

\* the same, in a run in which the operating system refuses nothing
InitWith(in) == InitFaulty(in, NoFaults)

\* local1 and g.X# defined and referenced, g.X# also in an unknown role
Init == \E in \in Inputs({Occurrence(s, r) : s \in {local1, gX}, r \in {DEFINITION, REFERENCE}}
                      \cup {Occurrence(gX, UNKNOWN_ROLE)}) : InitWith(in)

Spec == Init /\ [][Next]_vars

(* Inputs about the accessor rewrite: the symbols g.C#foo. and g.C#foo     *)
(* defined, g.C#foo_= and g.C#foo_=. referenced                            *)
gCfooDot    == <<"g", ".", "C", "#", "f", "o", "o", ".">>
gCfoo       == <<"g", ".", "C", "#", "f", "o", "o">>
gCfooSet    == <<"g", ".", "C", "#", "f", "o", "o", "_", "=">>
gCfooSetDot == <<"g", ".", "C", "#", "f", "o", "o", "_", "=", ".">>

InitAccessor ==
    \E in \in Inputs({Occurrence(gCfooDot, DEFINITION), Occurrence(gCfoo, DEFINITION),
                      Occurrence(gCfooSet, REFERENCE), Occurrence(gCfooSetDot, REFERENCE)}) :
        InitWith(in)

SpecAccessor == InitAccessor /\ [][Next]_vars

(* Inputs about the case class rewrite: the symbols g.C# and g/C# defined, *)
(* g.C. and g/C. referenced                                                *)
gCHash     == <<"g", ".", "C", "#">>
gCDot      == <<"g", ".", "C", ".">>
gSlashHash == <<"g", "/", "C", "#">>
gSlashDot  == <<"g", "/", "C", ".">>

InitCaseClass ==
    \E in \in Inputs({Occurrence(gCHash, DEFINITION), Occurrence(gSlashHash, DEFINITION),
                      Occurrence(gCDot, REFERENCE), Occurrence(gSlashDot, REFERENCE)}) :
        InitWith(in)

SpecCaseClass == InitCaseClass /\ [][Next]_vars

(* Inputs about the order of the cascade: one document that refers to      *)
(* g.f_=, to local1 and to lo_=cal1 and defines any of g.f_=, g#f_=, g.f,  *)
(* g#f and local1                                                          *)
gfSet     == <<"g", ".", "f", "_", "=">>
gHashfSet == <<"g", "#", "f", "_", "=">>
gf        == <<"g", ".", "f">>
gHashf    == <<"g", "#", "f">>
loSetcal1 == <<"l", "o", "_", "=", "c", "a", "l", "1">>

\* one file holding a.scala, with at most MaxOccs occurrences drawn from K
InputsOneDocument(K) ==
    {<<<<TextDocument("a.scala", SymbolsOf("a.scala"), oa)>>>> :
        oa \in OccurrenceLists(K, MaxOccs)}

InitCascade ==
    \E in \in InputsOneDocument(
                {Occurrence(s, DEFINITION) : s \in {gfSet, gHashfSet, gf, gHashf, local1}}
                \cup {Occurrence(s, REFERENCE) : s \in {gfSet, local1, loSetcal1}}) :
        InitWith(in)

SpecCascade == InitCascade /\ [][Next]_vars

(* Runs in which the operating system refuses something: the output file  *)
(* refuses every write from some record on, or the final flush, and the    *)
(* working directory may be removed while Index() loads or emits the       *)
(* document frames.                                                        *)
Rmdir ==
    /\ pc \in {"load", "docs"}
    /\ ~faults.getwdFails
    /\ faults' = [faults EXCEPT !.getwdFails = TRUE]
    /\ UNCHANGED <<input, files, defs, refs, w, proID, pc, todo, linkDoc, linkIdx, stats,
                   err, outFile, exit>>

Faults ==
    [writeFailsAt : 0..MaxFailAt, flushFails : BOOLEAN, getwdFails : {FALSE}]

InitFaults ==
    \E in \in Inputs({Occurrence(gX, DEFINITION), Occurrence(gX, REFERENCE)}), f \in Faults :
        InitFaulty(in, f)

NextFaults == Next \/ Rmdir

SpecFaults == InitFaults /\ [][NextFaults]_vars

(* The sink alone: a caller hands it values through Write, any of which    *)
(* the encoder may fail to marshal or to write, and ends with Flush.       *)
JsonWrite(v, outcome) ==
    /\ pc = "sink"
    /\ Len(w.jw.encoder.out) < MaxWrites
    /\ w' = [w EXCEPT !.jw = Write(@, v, outcome)]
    /\ UNCHANGED <<input, files, defs, refs, proID, pc, todo, linkDoc, linkIdx, stats,
                   err, faults, outFile, exit>>

JsonFlush(flushFails) ==
    /\ pc = "sink"
    /\ err' = Flush(w.jw, flushFails)
    /\ pc' = "flushed"
    /\ UNCHANGED <<input, files, defs, refs, w, proID, todo, linkDoc, linkIdx, stats,
                   faults, outFile, exit>>

InitSink ==
    /\ input = [files |-> <<>>, next |-> 1]
    /\ files = EmptyMap
    /\ defs = EmptyMap
    /\ refs = EmptyMap
    /\ w = NewEmitter
    /\ proID = 0
    /\ pc = "sink"
    /\ todo = {}
    /\ linkDoc = ""
    /\ linkIdx = 0
    /\ stats = [NumFiles |-> 0, NumDefs |-> 0, NumElements |-> 0]
    /\ err = NoError
    /\ faults = NoFaults
    /\ outFile = [exists |-> TRUE, open |-> TRUE]
    /\ exit = -1

NextSink ==
    \/ \E v \in 1..2, outcome \in Outcomes : JsonWrite(v, outcome)
    \/ \E flushFails \in BOOLEAN : JsonFlush(flushFails)

SpecSink == InitSink /\ [][NextSink]_vars

(* Inputs about loading: up to MaxDocs documents named a.scala or b.scala, *)
(* grouped into files in every way that keeps their order.  A document     *)
(* declares local1 and g.X#, or local1, g.X# and g.X# again; it holds a    *)
(* definition of and a reference to g.X#.  The occurrences of the n-th     *)
(* document are on line n and the display names of its symbols end in n.   *)
OccurrenceAt(symbol, role, line) ==
    [Symbol |-> symbol, Role |-> role,
     Range |-> [StartLine |-> line, StartCharacter |-> 0, EndLine |-> line, EndCharacter |-> 1]]

SymbolsAt(line) ==
    <<[Symbol |-> local1, DisplayName |-> "x" \o ToString(line)],
      [Symbol |-> gX, DisplayName |-> "X" \o ToString(line)]>>

DocumentsAt(line) ==
    {TextDocument(uri, symbols, occurrences) :
        uri \in {"a.scala", "b.scala"},
        symbols \in {SymbolsAt(line),
                     SymbolsAt(line) \o <<[Symbol |-> gX, DisplayName |-> "X"]>>},
        occurrences \in {<<OccurrenceAt(gX, DEFINITION, line),
                           OccurrenceAt(gX, REFERENCE, line)>>}}

RECURSIVE Split(_, _)
\* the documents grouped into files that end after the positions of cuts
Split(documents, cuts) ==
    IF documents = <<>> THEN <<>>
    ELSE LET ends == cuts \cup {Len(documents)}
             end  == CHOOSE c \in ends : \A d \in ends : c <= d
         IN  <<SubSeq(documents, 1, end)>>
             \o Split(SubSeq(documents, end + 1, Len(documents)),
                      {c - end : c \in cuts \ {end}})

RECURSIVE DocumentSeqs(_)
\* the sequences of n documents, the k-th of them on line k
DocumentSeqs(n) ==
    IF n = 0 THEN {<<>>}
    ELSE {Append(documents, d) : documents \in DocumentSeqs(n - 1), d \in DocumentsAt(n)}

\* the inputs of at most maxDocs documents
InputsLoad(maxDocs) ==
    UNION {{Split(documents, cuts) :
                documents \in DocumentSeqs(n), cuts \in SUBSET (1..(n - 1))} : n \in 1..maxDocs}

InitLoad == \E in \in InputsLoad(MaxDocs) : InitWith(in)

SpecLoad == InitLoad /\ [][Next]_vars

----------------------------------------------------------------------------
(* Vocabulary of the properties *)

\* the records emitted so far, in emission order
Out == w.out

\* the occurrence k of the registered document uri
OccAt(uri, k) == files[uri].document.Occurrences[k]

\* the occurrences <<uri, k>> of the registered documents with the given role
OccsWithRole(role) ==
    {o \in UNION {{<<u, k>> : k \in 1..Len(files[u].document.Occurrences)} : u \in DOMAIN files} :
        OccAt(o[1], o[2]).Role = role}

\* the symbol does not begin with the five characters l, o, c, a, l
IsGlobal(symbol) ==
    \/ Len(symbol) < 5
    \/ \E i \in 1..5 : symbol[i] # <<"l", "o", "c", "a", "l">>[i]

\* the positions in Out of the records a pass emitted for an occurrence
RecsOf(pass, uri, k) ==
    {i \in 1..Len(Out) : Out[i].pass = pass /\ Out[i].uri = uri /\ Out[i].occ = k}

\* the symbol of the occurrence a record was emitted for
SymbolOf(i) == OccAt(Out[i].uri, Out[i].occ).Symbol

\* the resultSet vertices emitted while processing a definition of symbol
\* in scope: the defining document for a local symbol, "" for a global one
ScopeOf(uri, symbol) == IF IsGlobal(symbol) THEN "" ELSE uri

ResultSetsOf(scope, symbol) ==
    {Out[i].id : i \in {j \in 1..Len(Out) :
        /\ Out[j].label = "resultSet"
        /\ SymbolOf(j) = symbol
        /\ ScopeOf(Out[j].uri, symbol) = scope}}

\* Index() has returned its Stats: the output stream is complete. The
\* stream only grows, so what a pass emitted is read off the final stream.
Finished == pc = "done"

PassRank(pass) ==
    CASE pass = "frames" -> 0
      [] pass = "D" -> 1
      [] pass = "U" -> 2
      [] pass = "L" -> 3

----------------------------------------------------------------------------
(* C1 *)

\* the occurrence ref is a reference to a global symbol that some
\* registered document defines
GlobalRefWithDef(ref) ==
    /\ IsGlobal(OccAt(ref[1], ref[2]).Symbol)
    /\ \E d \in OccsWithRole(DEFINITION) :
          OccAt(d[1], d[2]).Symbol = OccAt(ref[1], ref[2]).Symbol

\* pass U linked the occurrence ref: one of its records is a range, a next
\* edge leads from that range to a result set of ResultSets, and none of its
\* records is a referenceResult
LinkedTo(ref, ResultSets) ==
    /\ \E i \in RecsOf("U", ref[1], ref[2]) :
          /\ Out[i].label = "range"
          /\ \E n \in 1..Len(Out) :
                /\ Out[n].label = "next"
                /\ Out[n].outV = Out[i].id
                /\ Len(Out[n].inVs) = 1
                /\ Out[n].inVs[1] \in ResultSets
    /\ \A i \in RecsOf("U", ref[1], ref[2]) : Out[i].label # "referenceResult"

\* C1: in the output of a finished run, every REFERENCE occurrence of a global
\* symbol that has a DEFINITION occurrence in some registered document (the
\* same or another, visited earlier or later by any of the loops) has a next
\* edge from its range to the result set created for that symbol's
\* definition, and no referenceResult of its own.
C1_GlobalReferenceLinked ==
    Finished =>
        \A ref \in OccsWithRole(REFERENCE) :
            GlobalRefWithDef(ref) =>
                LinkedTo(ref, ResultSetsOf("", OccAt(ref[1], ref[2]).Symbol))

\* a finished run in which b.scala refers to a global symbol defined only
\* in a.scala, and both the document loop and the definitions loop visited
\* b.scala before a.scala
C1_Witness ==
    /\ pc = "done"
    /\ DOMAIN files = {"a.scala", "b.scala"}
    /\ files["b.scala"].docID < files["a.scala"].docID
    /\ \E ref \in OccsWithRole(REFERENCE), d \in OccsWithRole(DEFINITION) :
          /\ ref[1] = "b.scala" /\ d[1] = "a.scala"
          /\ GlobalRefWithDef(ref)
          /\ OccAt(d[1], d[2]).Symbol = OccAt(ref[1], ref[2]).Symbol
          /\ \A e \in OccsWithRole(DEFINITION) : IsGlobal(OccAt(e[1], e[2]).Symbol) => e[1] = "a.scala"
          /\ \E i \in 1..Len(Out), j \in RecsOf("D", d[1], d[2]) :
                Out[i].pass = "D" /\ Out[i].uri = "b.scala" /\ i < j

----------------------------------------------------------------------------
(* C2 *)

\* C2: at every moment no record of an earlier pass follows a record of a
\* later pass in the output stream (frames, then pass D, then pass U, then
\* pass L), and in the output of a finished run a contains edge whose outV
\* is a document comes after the range vertex of every DEFINITION and
\* REFERENCE occurrence of that document.
C2_PassOrder ==
    /\ \A i \in 1..(Len(Out) - 1) : PassRank(Out[i].pass) <= PassRank(Out[i + 1].pass)
    /\ \A c \in 1..Len(Out) :
          (Finished /\ Out[c].label = "contains" /\ Out[c].pass = "L") =>
              \A o \in OccsWithRole(DEFINITION) \cup OccsWithRole(REFERENCE) :
                  files[o[1]].docID = Out[c].outV =>
                      \E r \in 1..Len(Out) :
                          /\ Out[r].label = "range"
                          /\ Out[r].uri = o[1] /\ Out[r].occ = o[2]
                          /\ r < c

\* a finished run with two documents whose output holds records of the
\* three passes and both documents' contains edges, the uses pass having
\* emitted for one document and the definitions pass for the other
C2_Witness ==
    /\ pc = "done"
    /\ DOMAIN files = {"a.scala", "b.scala"}
    /\ \A u \in DOMAIN files :
          \E c \in 1..Len(Out) : Out[c].label = "contains" /\ Out[c].outV = files[u].docID
    /\ \E i, j, l \in 1..Len(Out) :
          /\ Out[i].pass = "D" /\ Out[j].pass = "U" /\ Out[l].pass = "L"
          /\ Out[i].uri # Out[j].uri

----------------------------------------------------------------------------
(* C3 *)

\* the ids of the range vertices pass D emitted for definitions of symbol
DefRangesOf(symbol) ==
    {Out[i].id : i \in {j \in 1..Len(Out) :
        Out[j].label = "range" /\ Out[j].pass = "D" /\ SymbolOf(j) = symbol}}

\* the positions of the range vertices of pass U that a next edge links to
\* a result set of ResultSets
RefRangePositions(ResultSets) ==
    {i \in 1..Len(Out) :
        /\ Out[i].label = "range" /\ Out[i].pass = "U"
        /\ \E n \in 1..Len(Out) :
              Out[n].label = "next" /\ Out[n].outV = Out[i].id /\ Out[n].inVs[1] \in ResultSets}

\* the item edges with the given property out of the referenceResult rr:
\* one for each document id of DocIDs and no other, their inVs pairwise
\* disjoint, without repetition, and together exactly Ranges
ItemsCover(rr, property, DocIDs, Ranges) ==
    LET E == {e \in 1..Len(Out) :
                Out[e].label = "item" /\ Out[e].property = property /\ Out[e].outV = rr}
    IN  /\ {Out[e].document : e \in E} = DocIDs
        /\ Cardinality(E) = Cardinality(DocIDs)
        /\ UNION {Elems(Out[e].inVs) : e \in E} = Ranges
        /\ \A e \in E : Cardinality(Elems(Out[e].inVs)) = Len(Out[e].inVs)
        /\ \A e, f \in E : e # f => Elems(Out[e].inVs) \cap Elems(Out[f].inVs) = {}

\* what pass L emitted for the global symbol
LinkedUp(symbol) ==
    LET defOccs   == {d \in OccsWithRole(DEFINITION) : OccAt(d[1], d[2]).Symbol = symbol}
        rs        == ResultSetsOf("", symbol)
        refPos    == RefRangePositions(rs)
        rrs       == {i \in 1..Len(Out) :
                        /\ Out[i].label = "referenceResult" /\ Out[i].pass = "L"
                        /\ SymbolOf(i) = symbol}
    IN  /\ Cardinality(rs) = 1
        /\ Cardinality(rrs) = Cardinality(defOccs)
        /\ Cardinality(DefRangesOf(symbol)) = Cardinality(defOccs)
        /\ \A i \in rrs :
              /\ Cardinality({e \in 1..Len(Out) :
                    /\ Out[e].label = "textDocument/references"
                    /\ Out[e].inVs = <<Out[i].id>>}) = 1
              /\ \A e \in 1..Len(Out) :
                    (Out[e].label = "textDocument/references" /\ Out[e].inVs = <<Out[i].id>>)
                        => Out[e].outV \in rs
              /\ ItemsCover(Out[i].id, "definitions",
                            {files[d[1]].docID : d \in defOccs}, DefRangesOf(symbol))
              /\ ItemsCover(Out[i].id, "references",
                            {files[Out[r].uri].docID : r \in refPos},
                            {Out[r].id : r \in refPos})

\* C3: in the output of a finished run, for every global symbol s with D defining occurrences,
\* pass L emitted exactly D referenceResult vertices for s; each is the inV
\* of exactly one textDocument/references edge, whose outV is the one result
\* set of s; its item-of-definitions edges are one per document defining s
\* and list exactly the D defining ranges, and its item-of-references edges
\* are one per document holding a reference linked to s and list exactly
\* the ranges of those references.
C3_ReferenceResultPerDefinition ==
    Finished =>
        \A d \in OccsWithRole(DEFINITION) :
            IsGlobal(OccAt(d[1], d[2]).Symbol) => LinkedUp(OccAt(d[1], d[2]).Symbol)

\* a finished run in which a global symbol is defined in both documents and
\* referenced
C3_Witness ==
    /\ pc = "done"
    /\ \E d, e \in OccsWithRole(DEFINITION) :
          /\ d[1] # e[1]
          /\ OccAt(d[1], d[2]).Symbol = OccAt(e[1], e[2]).Symbol
          /\ IsGlobal(OccAt(d[1], d[2]).Symbol)
          /\ RefRangePositions(ResultSetsOf("", OccAt(d[1], d[2]).Symbol)) # {}

----------------------------------------------------------------------------
(* C4 *)

\* the records a pass emitted for the occurrence o, in emission order
RecSeqOf(pass, o) ==
    LET Mine(r) == r.pass = pass /\ r.uri = o[1] /\ r.occ = o[2]
    IN  SelectSeq(Out, Mine)

Labels(recs) == [i \in 1..Len(recs) |-> recs[i].label]

\* no range of pass D for the same symbol in the same scope precedes the
\* range of the defining occurrence d
FirstInScope(d) ==
    LET symbol == OccAt(d[1], d[2]).Symbol
        mine   == RecSeqOf("D", d)
    IN  ~ \E i \in 1..Len(Out) :
            /\ Out[i].label = "range" /\ Out[i].pass = "D"
            /\ SymbolOf(i) = symbol
            /\ ScopeOf(Out[i].uri, symbol) = ScopeOf(d[1], symbol)
            /\ Out[i].id < mine[1].id

\* the records of pass D for the defining occurrence d: n is 1 if the
\* result set rs is emitted among them and 0 if it was emitted before
DefinitionRecords(d, n, rs) ==
    LET recs  == RecSeqOf("D", d)
        range == recs[1].id
    IN  /\ Labels(recs) =
              <<"range">> \o (IF n = 1 THEN <<"resultSet">> ELSE <<>>)
              \o <<"next", "definitionResult", "textDocument/definition", "item",
                   "hoverResult", "textDocument/hover">>
        /\ n = 1 => recs[2].id = rs
        /\ n = 0 => rs < range
        /\ recs[2 + n].outV = range /\ recs[2 + n].inVs = <<rs>>
        /\ recs[4 + n].outV = rs /\ recs[4 + n].inVs = <<recs[3 + n].id>>
        /\ recs[5 + n].outV = recs[3 + n].id /\ recs[5 + n].inVs = <<range>>
        /\ recs[5 + n].document = files[d[1]].docID /\ recs[5 + n].property = ""
        /\ recs[7 + n].outV = rs /\ recs[7 + n].inVs = <<recs[6 + n].id>>

\* C4: in the output of a finished run, the records of pass D for a
\* DEFINITION occurrence are, in this order, one range, one next (range to
\* result set), one definitionResult, one textDocument/definition (result
\* set to that definitionResult), one item (definitionResult to that one
\* range, tagged with the occurrence's document), one hoverResult and one
\* textDocument/hover (result set to that hoverResult), with a resultSet
\* vertex between the range and the next exactly when the occurrence is the
\* first definition of its symbol in its scope; a later definition uses the
\* result set the first one created.
C4_DefinitionRecords ==
    Finished =>
        \A d \in OccsWithRole(DEFINITION) :
            LET symbol == OccAt(d[1], d[2]).Symbol
                sets   == ResultSetsOf(ScopeOf(d[1], symbol), symbol)
            IN  /\ Cardinality(sets) = 1
                /\ \A rs \in sets :
                      DefinitionRecords(d, IF FirstInScope(d) THEN 1 ELSE 0, rs)

\* a finished run in which both documents define the same local symbol
\* and one of them defines it twice
C4_Witness ==
    /\ pc = "done"
    /\ \E d, e, f \in OccsWithRole(DEFINITION) :
          /\ d[1] # e[1] /\ e[1] = f[1] /\ e[2] < f[2]
          /\ ~IsGlobal(OccAt(d[1], d[2]).Symbol)
          /\ OccAt(d[1], d[2]).Symbol = OccAt(e[1], e[2]).Symbol
          /\ OccAt(e[1], e[2]).Symbol = OccAt(f[1], f[2]).Symbol
          /\ FirstInScope(d) /\ FirstInScope(e) /\ ~FirstInScope(f)

----------------------------------------------------------------------------
(* C5, C6 *)

\* what the cascade returns for the referencing occurrence ref, given the
\* tables the definitions pass has left
Resolution(ref) ==
    getDefAndRefInfo(files[ref[1]], defs, refs, OccAt(ref[1], ref[2]).Symbol)

\* the number of times x occurs in the sequence ids
Count(ids, x) == Cardinality({i \in 1..Len(ids) : ids[i] = x})

\* the records of pass U for the occurrence ref, which resolves as r says
ResolvedRecords(ref, r) ==
    LET recs  == RecSeqOf("U", ref)
        docID == files[ref[1]].docID
        table == IF r.local THEN files[ref[1]].localRefs ELSE refs
    IN  /\ Labels(recs) = <<"range", "next">>
        /\ recs[2].outV = recs[1].id
        /\ Len(recs[2].inVs) = 1
        /\ recs[2].inVs[1] \in ResultSetsOf(IF r.local THEN ref[1] ELSE "", r.key)
        /\ r.key \in DOMAIN table
        /\ docID \in DOMAIN table[r.key].refRangeIDs
        /\ Count(table[r.key].refRangeIDs[docID], recs[1].id) = 1

\* C5: in the output of a finished run, the records of pass U for a REFERENCE
\* occurrence that the cascade resolves are one range and one next edge
\* from that range to the result set of the resolved definition, and no
\* referenceResult; the range is listed once in the resolved symbol's
\* refRangeIDs under the id of the referencing document.
C5_ResolvedReference ==
    Finished =>
        \A ref \in OccsWithRole(REFERENCE) :
            Resolution(ref).found => ResolvedRecords(ref, Resolution(ref))

\* a finished run in which a document holds two references that resolve to
\* a definition of another document
C5_Witness ==
    /\ pc = "done"
    /\ \E p, q \in OccsWithRole(REFERENCE) :
          /\ p[1] = q[1] /\ p[2] < q[2]
          /\ Resolution(p).found /\ Resolution(q).found
          /\ Resolution(p).key = Resolution(q).key
          /\ Resolution(p).def.docID # files[p[1]].docID

\* the records of pass U for the occurrence ref, which does not resolve
UnresolvedRecords(ref) ==
    LET recs == RecSeqOf("U", ref)
    IN  /\ Labels(recs) = <<"range", "referenceResult", "textDocument/references", "item">>
        /\ recs[3].outV = recs[1].id
        /\ recs[3].inVs = <<recs[2].id>>
        /\ recs[4].outV = recs[2].id
        /\ recs[4].inVs = <<recs[1].id>>
        /\ recs[4].document = files[ref[1]].docID
        /\ recs[4].property = "references"
        /\ \A n \in 1..Len(Out) : Out[n].label = "next" => Out[n].outV # recs[1].id

\* C6: in the output of a finished run, the records of pass U for a REFERENCE
\* occurrence that the cascade does not resolve are one range r, one
\* referenceResult rr, one textDocument/references edge from r itself to
\* rr and one item-of-references edge (rr, [r], the occurrence's document);
\* no next edge leaves r, and Index() has raised no error.
C6_UnresolvedReference ==
    Finished =>
        /\ err = NoError
        /\ \A ref \in OccsWithRole(REFERENCE) :
              ~Resolution(ref).found => UnresolvedRecords(ref)

\* a finished run with an unresolved reference to a symbol that another
\* document defines locally, beside a resolved reference
C6_Witness ==
    /\ pc = "done"
    /\ \E p, q \in OccsWithRole(REFERENCE), d \in OccsWithRole(DEFINITION) :
          /\ ~Resolution(p).found
          /\ OccAt(d[1], d[2]).Symbol = OccAt(p[1], p[2]).Symbol
          /\ Resolution(q).found

----------------------------------------------------------------------------
(* C7 *)

\* C7: the k-th record of the output stream has id k, so the ids are
\* unique, increasing and without gaps from 1, and the emitter's counter
\* num_elements is the number of records emitted so far.
C7_DenseIDs ==
    /\ \A i \in 1..Len(Out) : Out[i].id = i
    /\ NumElements(w) = Len(Out)

\* a finished run that emitted the records of more than one occurrence
C7_Witness ==
    /\ pc = "done"
    /\ Len(Out) > 12
    /\ NumElements(w) = Len(Out)

----------------------------------------------------------------------------
(* C8 *)

\* the occurrences of the document uri that are definitions or references
RangedOccs(uri) ==
    {o \in OccsWithRole(DEFINITION) \cup OccsWithRole(REFERENCE) : o[1] = uri}

\* the contains edges out of the document uri
ContainsOf(uri) ==
    {c \in 1..Len(Out) : Out[c].label = "contains" /\ Out[c].outV = files[uri].docID}

\* the ids of the range vertices emitted for the occurrences of uri
RangesOfDoc(uri) ==
    {Out[i].id : i \in {j \in 1..Len(Out) : Out[j].label = "range" /\ Out[j].uri = uri}}

\* C8: in the output of a finished run, a document without DEFINITION and REFERENCE occurrence
\* has no contains edge of its own and every other document has exactly
\* one; its inVs hold no id twice and are, as a set, the ids of the ranges
\* emitted for the document's DEFINITION and REFERENCE occurrences, one
\* range for each of them.
C8_DocumentContains ==
    Finished =>
        \A u \in DOMAIN files :
            IF RangedOccs(u) = {}
            THEN ContainsOf(u) = {}
            ELSE /\ Cardinality(ContainsOf(u)) = 1
                 /\ Cardinality(RangesOfDoc(u)) = Cardinality(RangedOccs(u))
                 /\ \A c \in ContainsOf(u) :
                       /\ \A x \in DOMAIN Out[c].inVs : Out[c].inVs[x] = 1
                       /\ DOMAIN Out[c].inVs = RangesOfDoc(u)

\* a finished run in which one document holds a definition and a reference
\* and the other neither
C8_Witness ==
    /\ pc = "done"
    /\ \E u, v \in DOMAIN files :
          /\ RangedOccs(v) = {}
          /\ Len(files[v].document.Occurrences) > 0
          /\ \E d \in OccsWithRole(DEFINITION), r \in OccsWithRole(REFERENCE) :
                d[1] = u /\ r[1] = u
          /\ \E c \in ContainsOf(u) : Cardinality(DOMAIN Out[c].inVs) = 2

----------------------------------------------------------------------------
(* C9 *)

\* some occurrence is a definition and every definition is of symbol
OnlyDefinition(symbol) ==
    /\ OccsWithRole(DEFINITION) # {}
    /\ \A d \in OccsWithRole(DEFINITION) : OccAt(d[1], d[2]).Symbol = symbol

\* the referencing occurrences of symbol
RefsTo(symbol) == {r \in OccsWithRole(REFERENCE) : OccAt(r[1], r[2]).Symbol = symbol}

\* C9 as stated: when the only definition has symbol g.C#foo. every
\* reference with symbol g.C#foo_= is linked by a next edge to the
\* definition's result set and is not treated as unresolved.
C9_AsStated ==
    (Finished /\ OnlyDefinition(gCfooDot)) =>
        \A ref \in RefsTo(gCfooSet) : LinkedTo(ref, ResultSetsOf("", gCfooDot))

\* C9, amended: when the only definition has symbol g.C#foo. every
\* reference with symbol g.C#foo_=. (the definition's key with _= put
\* before its last character) is linked by a next edge to the definition's
\* result set and is not treated as unresolved, while every reference with
\* symbol g.C#foo_= gets the records of an unresolved reference: its third
\* key is g.C#foo, which is not the definition's key.
C9_AccessorRewrite ==
    (Finished /\ OnlyDefinition(gCfooDot)) =>
        /\ \A ref \in RefsTo(gCfooSetDot) : LinkedTo(ref, ResultSetsOf("", gCfooDot))
        /\ \A ref \in RefsTo(gCfooSet) : UnresolvedRecords(ref)

\* a finished run whose only definition is g.C#foo. and which refers to
\* g.C#foo_=. and to g.C#foo_=
C9_Witness ==
    /\ pc = "done"
    /\ OnlyDefinition(gCfooDot)
    /\ RefsTo(gCfooSetDot) # {}
    /\ RefsTo(gCfooSet) # {}

----------------------------------------------------------------------------
(* C10 *)

\* C10 as stated: when the only definition has symbol g.C# every reference
\* with symbol g.C. is linked by a next edge to the definition's result set
\* and is not treated as unresolved.
C10_AsStated ==
    (Finished /\ OnlyDefinition(gCHash)) =>
        \A ref \in RefsTo(gCDot) : LinkedTo(ref, ResultSetsOf("", gCHash))

\* C10, amended: when the only definition has symbol g/C# every reference
\* with symbol g/C. (whose only dot is the last character) is linked by a
\* next edge to the definition's result set and is not treated as
\* unresolved; when the only definition has symbol g.C#, every reference
\* with symbol g.C. gets the records of an unresolved reference: its
\* second key is g#C#, every dot being replaced.
C10_CaseClassRewrite ==
    Finished =>
        /\ OnlyDefinition(gSlashHash) =>
              \A ref \in RefsTo(gSlashDot) : LinkedTo(ref, ResultSetsOf("", gSlashHash))
        /\ OnlyDefinition(gCHash) =>
              \A ref \in RefsTo(gCDot) : UnresolvedRecords(ref)

\* a finished run whose only definition is g/C# and which refers to g/C.
\* from the other document
C10_Witness ==
    /\ pc = "done"
    /\ OnlyDefinition(gSlashHash)
    /\ \E ref \in RefsTo(gSlashDot), d \in OccsWithRole(DEFINITION) : ref[1] # d[1]

----------------------------------------------------------------------------
(* C11 *)

\* the three keys of a referenced symbol, written out
KeysOf(symbol) ==
    CASE symbol = gfSet     -> <<gfSet, gHashfSet, gf>>
      [] symbol = local1    -> <<local1, local1, local1>>
      [] symbol = loSetcal1 -> <<loSetcal1, loSetcal1, local1>>

\* some registered document defines the symbol
Defined(symbol) == \E d \in OccsWithRole(DEFINITION) : OccAt(d[1], d[2]).Symbol = symbol

\* where the reference ref is to be linked: the scope and key of a
\* definition, or no definition at all (key <<>>)
Target(ref) ==
    LET s    == OccAt(ref[1], ref[2]).Symbol
        keys == KeysOf(s)
        hits == {k \in 1..3 : IsGlobal(keys[k]) /\ Defined(keys[k])}
    IN  IF ~IsGlobal(s) /\ \E d \in OccsWithRole(DEFINITION) :
                               d[1] = ref[1] /\ OccAt(d[1], d[2]).Symbol = s
        THEN [scope |-> ref[1], key |-> s]
        ELSE IF hits = {} THEN [scope |-> "", key |-> <<>>]
        ELSE [scope |-> "", key |-> keys[CHOOSE k \in hits : \A h \in hits : k <= h]]

\* the entries <<scope, key>> of the correlation tables whose refRangeIDs
\* list the range id
ListedUnder(id) ==
    {<<"", k>> : k \in {x \in DOMAIN refs :
        \E doc \in DOMAIN refs[x].refRangeIDs : id \in Elems(refs[x].refRangeIDs[doc])}}
    \cup UNION {{<<u, k>> : k \in {x \in DOMAIN files[u].localRefs :
        \E doc \in DOMAIN files[u].localRefs[x].refRangeIDs :
            id \in Elems(files[u].localRefs[x].refRangeIDs[doc])}} : u \in DOMAIN files}

(* C11: in a finished run, a reference to s in document d is linked to d's *)
(* own definition of s when s is local and d defines it; otherwise to the  *)
(* definition of the first of the three keys s, s with every dot replaced  *)
(* by #, s without _= and back-ticks that is a defined global symbol: its  *)
(* next edge leads to that definition's result set and its range is listed *)
(* in the refRangeIDs of that entry and of no other.  When none of the     *)
(* three is a defined global symbol, also when a definition would match    *)
(* after both rewrites, the reference has the records of an unresolved     *)
(* reference and is listed nowhere.                                        *)
C11_CascadeOrder ==
    Finished =>
        \A ref \in OccsWithRole(REFERENCE) :
            LET t    == Target(ref)
                recs == RecSeqOf("U", ref)
            IN  IF t.key = <<>>
                THEN UnresolvedRecords(ref) /\ ListedUnder(recs[1].id) = {}
                ELSE /\ Labels(recs) = <<"range", "next">>
                     /\ recs[2].outV = recs[1].id
                     /\ Cardinality(ResultSetsOf(t.scope, t.key)) = 1
                     /\ recs[2].inVs[1] \in ResultSetsOf(t.scope, t.key)
                     /\ ListedUnder(recs[1].id) = {<<t.scope, t.key>>}

\* a finished run that refers to g.f_= and defines g.f before g#f_=, the
\* third key before the second, and not g.f_= itself
C11_Witness ==
    /\ pc = "done"
    /\ \E ref \in OccsWithRole(REFERENCE), d, e \in OccsWithRole(DEFINITION) :
          /\ OccAt(ref[1], ref[2]).Symbol = gfSet
          /\ OccAt(d[1], d[2]).Symbol = gf
          /\ OccAt(e[1], e[2]).Symbol = gHashfSet
          /\ d[2] < e[2]
          /\ Target(ref).key = gHashfSet
          /\ ListedUnder(RecSeqOf("U", ref)[1].id) = {<<"", gHashfSet>>}

----------------------------------------------------------------------------
(* C12 *)

\* the pairs <<scope, symbol>> that have a defining occurrence
DefinedScopes ==
    {<<ScopeOf(d[1], OccAt(d[1], d[2]).Symbol), OccAt(d[1], d[2]).Symbol>> :
        d \in OccsWithRole(DEFINITION)}

\* the document of ref holds a defining occurrence of ref's symbol
DefinedInOwnDocument(ref) ==
    \E d \in OccsWithRole(DEFINITION) :
        d[1] = ref[1] /\ OccAt(d[1], d[2]).Symbol = OccAt(ref[1], ref[2]).Symbol

(* C12: at every moment no key of the global tables defs and refs starts   *)
(* with "local" and every key of a document's localDefs and localRefs      *)
(* does.  In the output of a finished run there is exactly one resultSet   *)
(* vertex for each pair (scope, s) with a defining occurrence, the scope   *)
(* being the defining document for a local s and the batch otherwise, and  *)
(* no other resultSet vertex; a reference to a local key is linked to the  *)
(* result set of its own document's definition when there is one, and has  *)
(* the records of an unresolved reference when only other documents define *)
(* the key.                                                                *)
C12_Scoping ==
    /\ \A k \in DOMAIN defs \cup DOMAIN refs : IsGlobal(k)
    /\ \A u \in DOMAIN files :
          \A k \in DOMAIN files[u].localDefs \cup DOMAIN files[u].localRefs : ~IsGlobal(k)
    /\ Finished =>
          /\ \A p \in DefinedScopes : Cardinality(ResultSetsOf(p[1], p[2])) = 1
          /\ Cardinality({i \in 1..Len(Out) : Out[i].label = "resultSet"})
                = Cardinality(DefinedScopes)
          /\ \A ref \in OccsWithRole(REFERENCE) :
                ~IsGlobal(OccAt(ref[1], ref[2]).Symbol) =>
                    IF DefinedInOwnDocument(ref)
                    THEN LinkedTo(ref, ResultSetsOf(ref[1], OccAt(ref[1], ref[2]).Symbol))
                    ELSE UnresolvedRecords(ref)

\* a finished run in which both documents define the same local key and
\* one of them refers to it
C12_Witness ==
    /\ pc = "done"
    /\ \E d, e \in OccsWithRole(DEFINITION), ref \in OccsWithRole(REFERENCE) :
          /\ d[1] # e[1] /\ ref[1] = d[1]
          /\ OccAt(d[1], d[2]).Symbol = local1
          /\ OccAt(e[1], e[2]).Symbol = local1
          /\ OccAt(ref[1], ref[2]).Symbol = local1
          /\ ResultSetsOf(d[1], local1) \cap ResultSetsOf(e[1], local1) = {}
          /\ LinkedTo(ref, ResultSetsOf(d[1], local1))

----------------------------------------------------------------------------
(* C13 *)

RECURSIVE Concat(_)
Concat(seqs) == IF seqs = <<>> THEN <<>> ELSE Head(seqs) \o Concat(Tail(seqs))

\* the documents of the input in the order loadDatabases reads them
Documents == Concat(input.files)

\* the number of documents in the files loadDatabases has read
NumRead == Len(Concat(SubSeq(input.files, 1, input.next - 1)))

Repeats(document) ==
    {j \in 1..Len(document.Symbols) :
        \E i \in 1..(j - 1) : document.Symbols[i].Symbol = document.Symbols[j].Symbol}

\* the documents that declare some key twice
Faulty == {k \in 1..Len(Documents) : Repeats(Documents[k]) # {}}

FirstFaulty == CHOOSE k \in Faulty : \A l \in Faulty : k <= l

FirstRepeat(document) ==
    document.Symbols[CHOOSE j \in Repeats(document) : \A l \in Repeats(document) : j <= l].Symbol

\* C13: when a document of the input declares a key twice, no record is
\* ever emitted and no Stats are returned, and once the file holding the
\* first such document is read, Index has failed with the duplicate symbol
\* error naming the key; when no document does, loading raises no error,
\* although every document declares the same keys g.X# and local1
C13_DuplicateSymbol ==
    IF Faulty = {}
    THEN pc # "failed" /\ err = NoError
    ELSE /\ Len(Out) = 0
         /\ w.id = 0
         /\ stats = [NumFiles |-> 0, NumDefs |-> 0, NumElements |-> 0]
         /\ pc \in {"load", "failed", "exited"}
         /\ NumRead >= FirstFaulty =>
                /\ pc \in {"failed", "exited"}
                /\ err = [kind |-> "duplicate symbol",
                          key |-> FirstRepeat(Documents[FirstFaulty])]

\* Index has failed on the third of three documents, read from a second
\* file, after two documents that declare the same keys once each
C13_Witness ==
    /\ pc = "failed"
    /\ Len(input.files) = 2
    /\ Faulty = {3}
    /\ err = [kind |-> "duplicate symbol", key |-> gX]
    /\ Len(Out) = 0
    /\ \A k \in 1..2 : {Documents[k].Symbols[i].Symbol : i \in 1..2} = {gX, local1}

----------------------------------------------------------------------------
(* C14 *)

----------------------------------------------------------------------------
(* C15 *)

\* the loop of indexDbDocs has ended and left a registered document without
\* its document vertex: emitting the document frames has failed
DocFramesFailed ==
    /\ pc \notin {"load", "docs"}
    /\ \E uri \in DOMAIN files : files[uri].docID = 0

\* C15: once a write of the sink has failed, or emitting the document
\* frames has failed, nothing more reaches the output, and Index does not
\* return Stats
C15_FailureAborts ==
    [][(w.jw.err # NoError \/ DocFramesFailed) =>
          /\ w'.jw.encoder.out = w.jw.encoder.out
          /\ pc' # "done"
          /\ stats' = stats]_vars

----------------------------------------------------------------------------
(* C16 *)

\* C16: when Index has failed, the driver ends with a non-zero status, the
\* output file closed, and no output file left behind
C16_NoPartialResult ==
    (pc = "exited" /\ err # NoError) =>
        /\ exit # 0
        /\ ~outFile.open
        /\ ~outFile.exists

----------------------------------------------------------------------------
(* C17 *)

\* the positions in the output of the document vertices of uri
DocumentVertices(uri) ==
    {k \in 1..Len(Out) : Out[k].label = "document" /\ Out[k].payload = <<LanguageScala, uri>>}

\* C17: in a run that ended with Stats, record 1 is metaData and record 2
\* the scala project; then come, for each registered document, its document
\* vertex and right after it the contains edge from the project to that
\* vertex alone; these frames are all the records before pass D, every
\* registered document has one document vertex, and its id is the document
\* of the later item edges and the origin of the later contains edges
C17_Frames ==
    Finished =>
        LET n == Cardinality(DOMAIN files)
        IN  /\ Len(Out) >= 2 * n + 2
            /\ Out[1].label = "metaData" /\ Out[1].id = 1
            /\ Out[2].label = "project" /\ Out[2].id = 2
            /\ Out[2].payload = <<"scala">>
            /\ \A k \in 1..n :
                  /\ Out[2 * k + 1].label = "document"
                  /\ Out[2 * k + 2].label = "contains"
                  /\ Out[2 * k + 2].outV = 2
                  /\ Out[2 * k + 2].inVs = (Out[2 * k + 1].id :> 1)
            /\ \A k \in 1..Len(Out) : (Out[k].pass = "frames") <=> (k <= 2 * n + 2)
            /\ \A uri \in DOMAIN files :
                  /\ Cardinality(DocumentVertices(uri)) = 1
                  /\ \A k \in DocumentVertices(uri) : Out[k].id = files[uri].docID
            /\ \A k \in (2 * n + 3)..Len(Out) :
                  /\ Out[k].label = "item" =>
                        \E uri \in DOMAIN files : Out[k].document = files[uri].docID
                                                  /\ DocumentVertices(uri) # {}
                  /\ Out[k].label = "contains" =>
                        /\ Out[k].outV = files[Out[k].uri].docID
                        /\ DocumentVertices(Out[k].uri) # {}

----------------------------------------------------------------------------
(* C18 *)

\* the uris of the documents of the input
InputUris == {Documents[k].Uri : k \in 1..Len(Documents)}

\* the pairs <<uri, symbol>> of the entries of the LocalDefs tables
LocalDefEntries ==
    {p \in (DOMAIN files) \X {local1, gX} : p[2] \in DOMAIN files[p[1]].localDefs}

\* C18: the Stats of a run that succeeded: NumFiles is the number of
\* registered documents, that is of distinct uris of the input; NumDefs is
\* the size of the global Defs table plus the sizes of the LocalDefs
\* tables, that is the number of pairs <<scope, symbol>> with a defining
\* occurrence; NumElements is the number of records emitted and the id of
\* the last of them
C18_Stats ==
    Finished =>
        /\ stats.NumFiles = Cardinality(DOMAIN files)
        /\ stats.NumFiles = Cardinality(InputUris)
        /\ stats.NumDefs = Cardinality(DOMAIN defs) + Cardinality(LocalDefEntries)
        /\ stats.NumDefs = Cardinality(DefinedScopes)
        /\ stats.NumElements = Len(Out)
        /\ Len(Out) > 0 => Out[Len(Out)].id = stats.NumElements

\* a run over two documents that ended with Stats, where local1 is defined
\* twice in a.scala and once in b.scala: three defining occurrences, two
\* definitions counted
C18_Witness ==
    /\ Finished
    /\ stats.NumFiles = 2
    /\ Cardinality(OccsWithRole(DEFINITION)) = 3
    /\ \A d \in OccsWithRole(DEFINITION) : OccAt(d[1], d[2]).Symbol = local1
    /\ stats.NumDefs = 2
    /\ stats.NumElements = Len(Out)

----------------------------------------------------------------------------
(* C19 *)

\* the position of the last of the first n documents of the input named uri
LastWith(uri, n) ==
    CHOOSE k \in 1..n :
        /\ Documents[k].Uri = uri
        /\ \A l \in (k + 1)..n : Documents[l].Uri # uri

\* the symbols of a document that declares no key twice, by key
SymbolTable(document) ==
    [key \in {document.Symbols[i].Symbol : i \in 1..Len(document.Symbols)} |->
        document.Symbols[CHOOSE i \in 1..Len(document.Symbols) :
                            document.Symbols[i].Symbol = key]]

\* C19: as long as loading has raised no error, the registry has one entry
\* for each uri of the documents read, holding the last of them with that
\* uri and the table of that document's symbols, and, until index() starts,
\* no document id, no ranges and empty LocalDefs and LocalRefs; documents
\* with the same uri raise no error; every range emitted lies on the line
\* of the last document with its uri and every hover shows a name of that
\* document, so that no record comes from a document that was overwritten
C19_LastWins ==
    /\ Faulty = {} => err = NoError
    /\ err = NoError =>
          /\ DOMAIN files = {Documents[k].Uri : k \in 1..NumRead}
          /\ \A uri \in DOMAIN files :
                LET d == Documents[LastWith(uri, NumRead)]
                IN  /\ files[uri].document = d
                    /\ files[uri].symbols = SymbolTable(d)
                    /\ pc = "load" => files[uri] = [document    |-> d,
                                                    symbols     |-> SymbolTable(d),
                                                    docID       |-> 0,
                                                    defRangeIDs |-> <<>>,
                                                    useRangeIDs |-> <<>>,
                                                    localDefs   |-> EmptyMap,
                                                    localRefs   |-> EmptyMap]
    /\ \A k \in 1..Len(Out) :
          LET last == LastWith(Out[k].uri, Len(Documents))
          IN  /\ Out[k].label = "range" => Out[k].payload[1].Line = last
              /\ Out[k].label = "hoverResult" =>
                    Out[k].payload[1].Value =
                        SymbolTable(Documents[last])[OccAt(Out[k].uri, Out[k].occ).Symbol].DisplayName
    /\ Finished =>
          Cardinality({k \in 1..Len(Out) : Out[k].label = "range"})
            = Cardinality(OccsWithRole(DEFINITION) \cup OccsWithRole(REFERENCE))

\* a run that ended with Stats over a.scala, b.scala and a.scala again in
\* one file: the registry holds the third document under a.scala, and the
\* definition of and the reference to g.X# of the first have no range,
\* while those of the third have
C19_Witness ==
    /\ Finished
    /\ Len(input.files) = 1
    /\ Len(Documents) = 3
    /\ Documents[1].Uri = "a.scala" /\ Documents[2].Uri = "b.scala"
    /\ Documents[3].Uri = "a.scala"
    /\ Documents[1] # Documents[3]
    /\ \E k \in 1..Len(Out) : Out[k].label = "range" /\ Out[k].payload[1].Line = 3
    /\ files["a.scala"].document = Documents[3]
    /\ \A k \in 1..Len(Out) : Out[k].label = "range" => Out[k].payload[1].Line # 1

----------------------------------------------------------------------------
(* C20 *)

IsKnown(occurrence) == occurrence.Role \in {DEFINITION, REFERENCE}

\* the occurrences k of the registered document uri whose role is neither
\* DEFINITION nor REFERENCE
UnknownOccs(uri) ==
    {k \in 1..Len(files[uri].document.Occurrences) : ~IsKnown(OccAt(uri, k))}

\* the fileInfo whose document has lost the occurrences of unknown role
WithoutUnknown(fi) ==
    [fi EXCEPT !.document.Occurrences = SelectSeq(@, IsKnown)]

\* the records without the position of the occurrence they were emitted for
Untagged(out) == [k \in 1..Len(out) |-> [out[k] EXCEPT !.occ = 0]]

\* two emitters have emitted the same records and two fileInfos hold the
\* same ids and tables
SameOutput(e1, e2) ==
    /\ Untagged(e1.out) = Untagged(e2.out)
    /\ e1.id = e2.id
    /\ e1.jw = e2.jw

SameTables(fi1, fi2) ==
    /\ fi1.docID = fi2.docID
    /\ fi1.defRangeIDs = fi2.defRangeIDs
    /\ fi1.useRangeIDs = fi2.useRangeIDs
    /\ fi1.localDefs = fi2.localDefs
    /\ fi1.localRefs = fi2.localRefs

\* no record was emitted for an occurrence of unknown role; the body of the
\* loop of pass D and of pass U leaves the emitter, the file and the tables
\* as they are on such an occurrence; pass D and pass U on a file emit the
\* same records and leave the same tables as on the file without them
IgnoredByDefsAndUses ==
    /\ \A k \in 1..Len(Out) : Out[k].occ > 0 => IsKnown(OccAt(Out[k].uri, Out[k].occ))
    /\ pc = "defs" =>
          \A uri \in todo :
              LET st == [w |-> w, fi |-> files[uri], defs |-> defs, refs |-> refs,
                         rangeIDs |-> <<>>]
                  r1 == indexDbDefs(w, files[uri], defs, refs, uri)
                  r2 == indexDbDefs(w, WithoutUnknown(files[uri]), defs, refs, uri)
              IN  /\ \A k \in UnknownOccs(uri) : DefsOccurrence(st, uri, k) = st
                  /\ SameOutput(r1.w, r2.w) /\ SameTables(r1.fi, r2.fi)
                  /\ r1.defs = r2.defs /\ r1.refs = r2.refs
    /\ pc = "uses" =>
          \A uri \in todo :
              LET st == [w |-> w, fi |-> files[uri], refs |-> refs, rangeIDs |-> <<>>]
                  r1 == indexDbUses(w, files[uri], defs, refs, uri)
                  r2 == indexDbUses(w, WithoutUnknown(files[uri]), defs, refs, uri)
              IN  /\ \A k \in UnknownOccs(uri) : UsesOccurrence(st, defs, uri, k) = st
                  /\ SameOutput(r1.w, r2.w) /\ SameTables(r1.fi, r2.fi)
                  /\ r1.refs = r2.refs

\* the link-up loop stands before an occurrence of unknown role
LinkAtUnknown ==
    /\ pc = "link"
    /\ linkDoc # ""
    /\ linkIdx \in UnknownOccs(linkDoc)

\* C20: an occurrence whose role is neither DEFINITION nor REFERENCE gets no
\* record, changes no table and no range list in any of the three passes,
\* and the records and tables are those of the input without it
C20_UnknownRoleIgnored ==
    /\ []IgnoredByDefsAndUses
    /\ [][LinkAtUnknown =>
            /\ w' = w /\ files' = files /\ defs' = defs /\ refs' = refs
            /\ linkIdx' = linkIdx + 1]_vars

\* the run has ended with Stats over a document that holds an occurrence of
\* g.X# of unknown role between a definition of and a reference to g.X#
C20_Witness ==
    /\ Finished
    /\ "a.scala" \in DOMAIN files
    /\ Len(files["a.scala"].document.Occurrences) = 3
    /\ OccAt("a.scala", 1) = Occurrence(gX, DEFINITION)
    /\ OccAt("a.scala", 2) = Occurrence(gX, UNKNOWN_ROLE)
    /\ OccAt("a.scala", 3) = Occurrence(gX, REFERENCE)
    /\ \E k \in 1..Len(Out) : Out[k].occ = 3 /\ Out[k].label = "range"

----------------------------------------------------------------------------
(* C21 *)

\* the defining occurrences whose key the symbols of their document lack
Undeclared ==
    {d \in OccsWithRole(DEFINITION) :
        OccAt(d[1], d[2]).Symbol \notin DOMAIN files[d[1]].symbols}

\* C21: a defining occurrence whose key is not among the symbols of its
\* document makes nothing fail; once pass D is over it has the records of
\* any definition, and its hoverResult holds one marked string of language
\* scala with the empty value
C21_UndeclaredDefinition ==
    /\ pc # "failed" /\ err = NoError
    /\ pc \notin {"load", "docs", "defs"} =>
          \A d \in Undeclared :
              LET recs == RecSeqOf("D", d)
                  n    == Len(recs) - 7
              IN  /\ n \in {0, 1}
                  /\ DefinitionRecords(d, n, recs[2 + n].inVs[1])
                  /\ recs[6 + n].label = "hoverResult"
                  /\ recs[6 + n].payload = <<[Language |-> "scala", Value |-> ""]>>

\* the run has ended with Stats over b.scala, which declares no symbol and
\* defines g.X#
C21_Witness ==
    /\ Finished
    /\ \E d \in Undeclared :
          /\ d[1] = "b.scala"
          /\ OccAt(d[1], d[2]).Symbol = gX
          /\ \E i \in 1..Len(Out) :
                /\ Out[i].label = "hoverResult" /\ Out[i].uri = "b.scala"
                /\ Out[i].occ = d[2]
                /\ Out[i].payload[1].Value = ""

----------------------------------------------------------------------------
(* C22 *)

\* one file with the one document a.scala that defines local1 and then
\* refers to it
ScenarioA ==
    input.files = <<<<TextDocument("a.scala", SymbolsOf("a.scala"),
                                   <<Occurrence(local1, DEFINITION),
                                     Occurrence(local1, REFERENCE)>>)>>>>

\* the records of the output as they are written, without the marks of the
\* pass and the occurrence they were emitted for
Plain(out) ==
    [k \in 1..Len(out) |->
        [id |-> out[k].id, type |-> out[k].type, label |-> out[k].label,
         outV |-> out[k].outV, inVs |-> out[k].inVs, document |-> out[k].document,
         property |-> out[k].property, payload |-> out[k].payload]]

V(id, label, payload) ==
    [id |-> id, type |-> "vertex", label |-> label, outV |-> 0, inVs |-> <<>>,
     document |-> 0, property |-> "", payload |-> payload]

E(id, label, outV, inVs, document, property) ==
    [id |-> id, type |-> "edge", label |-> label, outV |-> outV, inVs |-> inVs,
     document |-> document, property |-> property, payload |-> <<>>]

\* metaData 1, project 2, document 3, range of the definition 5, resultSet
\* 6, definitionResult 8, hoverResult 11, range of the reference 13,
\* referenceResult 15
OutputA ==
    <<V(1, "metaData", <<"file://.">>),
      V(2, "project", <<"scala">>),
      V(3, "document", <<"scala", "a.scala">>),
      E(4, "contains", 2, (3 :> 1), 0, ""),
      V(5, "range", convertRange(Span)),
      V(6, "resultSet", <<>>),
      E(7, "next", 5, <<6>>, 0, ""),
      V(8, "definitionResult", <<>>),
      E(9, "textDocument/definition", 6, <<8>>, 0, ""),
      E(10, "item", 8, <<5>>, 3, ""),
      V(11, "hoverResult", <<[Language |-> "scala", Value |-> "x"]>>),
      E(12, "textDocument/hover", 6, <<11>>, 0, ""),
      V(13, "range", convertRange(Span)),
      E(14, "next", 13, <<6>>, 0, ""),
      V(15, "referenceResult", <<>>),
      E(16, "textDocument/references", 6, <<15>>, 0, ""),
      E(17, "item", 15, <<5>>, 3, "definitions"),
      E(18, "item", 15, <<13>>, 3, "references"),
      E(19, "contains", 3, (5 :> 1) @@ (13 :> 1), 0, "")>>

\* C22: the run over the one document a.scala with a definition of local1
\* followed by a reference to it emits, at every step, a prefix of the
\* nineteen records of scenario A, and all nineteen when it ends
C22_ScenarioA ==
    ScenarioA =>
        /\ Len(Out) <= Len(OutputA)
        /\ Plain(Out) = SubSeq(OutputA, 1, Len(Out))
        /\ Finished => Len(Out) = 19 /\ stats.NumElements = 19

C22_Witness == ScenarioA /\ Finished /\ Len(Out) = 19

----------------------------------------------------------------------------
(* C23 *)

\* the positions in the output of the range vertices
RangeVertices == {i \in 1..Len(Out) : Out[i].label = "range"}

\* the positions of the range vertices emitted for the occurrence o
RangesOf(o) == {i \in RangeVertices : Out[i].uri = o[1] /\ Out[i].occ = o[2]}

\* index() has left the loop of pass D, of pass U
PassDOver == pc \in {"uses", "link", "stats", "done"} \/ (pc = "exited" /\ exit = 0)
PassUOver == pc \in {"link", "stats", "done"} \/ (pc = "exited" /\ exit = 0)

\* C23: every range vertex is emitted for one defining or referring
\* occurrence of a registered document, by pass D or by pass U according to
\* the role; no occurrence has two range vertices and no two range vertices
\* have the same id; once pass D (pass U) is over every defining (referring)
\* occurrence has its range vertex, so that the finished run holds as many
\* range vertices as there are defining and referring occurrences, and an
\* occurrence that defines and one that refers over the same span have two
\* vertices with different ids
C23_OneRangePerOccurrence ==
    LET ranges == RangeVertices
        ds     == OccsWithRole(DEFINITION)
        rs     == OccsWithRole(REFERENCE)
        Of(o)  == {i \in ranges : Out[i].uri = o[1] /\ Out[i].occ = o[2]}
    IN  /\ \A i \in ranges :
              /\ Out[i].type = "vertex"
              /\ Out[i].pass \in {"D", "U"}
              /\ <<Out[i].uri, Out[i].occ>> \in (IF Out[i].pass = "D" THEN ds ELSE rs)
        /\ \A i, j \in ranges : i # j => Out[i].id # Out[j].id
        /\ \A o \in ds \cup rs : Cardinality(Of(o)) <= 1
        /\ PassDOver => \A o \in ds : Cardinality(Of(o)) = 1
        /\ PassUOver =>
              /\ \A o \in rs : Cardinality(Of(o)) = 1
              /\ Cardinality(ranges) = Cardinality(ds \cup rs)
              /\ \A d \in ds, r \in rs :
                    OccAt(d[1], d[2]).Range = OccAt(r[1], r[2]).Range =>
                        \A i \in Of(d), j \in Of(r) :
                            /\ Out[i].id # Out[j].id
                            /\ Out[i].payload = Out[j].payload

\* a finished run over a definition and a reference to the same symbol in
\* one document, over the same span, with their two ranges
C23_Witness ==
    /\ Finished
    /\ \E d \in OccsWithRole(DEFINITION), r \in OccsWithRole(REFERENCE) :
          /\ d[1] = r[1]
          /\ OccAt(d[1], d[2]).Symbol = OccAt(r[1], r[2]).Symbol
          /\ OccAt(d[1], d[2]).Range = OccAt(r[1], r[2]).Range
          /\ \E i \in RangesOf(d), j \in RangesOf(r) : Out[i].id # Out[j].id
    /\ Cardinality(RangeVertices) = 3

----------------------------------------------------------------------------
(* C24 *)

\* the registry with every document's lists of ranges and local tables, and
\* the tables of the global symbols
Correlation == <<files, defs, refs>>

\* C24: no step taken while index() is in the link-up loop, or after it,
\* changes the registry, a document's lists of defining and of referring
\* ranges, a document's local definitions and local references, or the
\* global definitions and references; such a step changes the emitter and
\* the position of the loop only
C24_LinkFrame ==
    [][(pc = "link" \/ pc = "stats" \/ pc = "done") =>
          (Correlation' = Correlation /\ input' = input /\ proID' = proID)]_vars

\* the link-up loop has emitted the references of a global and of a local
\* definition and a contains edge, all tables being non-empty
C24_Witness ==
    /\ pc = "stats"
    /\ defs # EmptyMap /\ refs # EmptyMap
    /\ \E u \in DOMAIN files :
          /\ files[u].localDefs # EmptyMap
          /\ Len(files[u].defRangeIDs) > 0 /\ Len(files[u].useRangeIDs) > 0
    /\ \E i, j \in 1..Len(Out) :
          /\ Out[i].pass = "L" /\ Out[i].label = "referenceResult"
          /\ Out[j].pass = "L" /\ Out[j].label = "contains"

----------------------------------------------------------------------------
(* C25 *)

\* the ids of the range vertices the pass emitted for the document, in the
\* order of emission, which is the order of the occurrences
RangeIDsOf(pass, uri) ==
    LET Mine(r) == r.label = "range" /\ r.pass = pass /\ r.uri = uri
        recs    == SelectSeq(Out, Mine)
    IN  [k \in 1..Len(recs) |-> recs[k].id]

\* the occurrences of the document with the given role
OccsOf(uri, role) == {o \in OccsWithRole(role) : o[1] = uri}

\* once pass U is over, every document's list of referring ranges holds the
\* ids of its referring ranges in the order of the occurrences, each once
UseRangeIDsOnce ==
    PassUOver =>
        \A u \in DOMAIN files :
            /\ files[u].useRangeIDs = RangeIDsOf("U", u)
            /\ Len(files[u].useRangeIDs) = Cardinality(OccsOf(u, REFERENCE))

\* once pass D is over, every document's list of defining ranges holds the
\* ids of its defining ranges in the order of the occurrences, each once
DefRangeIDsOnce ==
    PassDOver =>
        \A u \in DOMAIN files :
            /\ files[u].defRangeIDs = RangeIDsOf("D", u)
            /\ Len(files[u].defRangeIDs) = Cardinality(OccsOf(u, DEFINITION))

\* C25: after pass D every document's list of defining ranges, and after
\* pass U its list of referring ranges, holds the id of each of its ranges
\* exactly once, in the order of the occurrences
C25_AppendedOnce == DefRangeIDsOnce /\ UseRangeIDsOnce

RECURSIVE Twice(_)
\* every element of the sequence followed by a copy of itself
Twice(s) == IF s = <<>> THEN <<>> ELSE <<Head(s), Head(s)>> \o Twice(Tail(s))

\* what the lists of defining ranges hold after pass D: every id twice
DefRangeIDsTwice ==
    PassDOver => \A u \in DOMAIN files : files[u].defRangeIDs = Twice(RangeIDsOf("D", u))

----------------------------------------------------------------------------
(* C26 *)

\* the table of definitions ds and the table of reference results rs have
\* the same keys and the same result set under every key, and every
\* reference result lists a defining range
Agree(ds, rs) ==
    /\ DOMAIN ds = DOMAIN rs
    /\ \A key \in DOMAIN rs :
          /\ ds[key].resultSetID = rs[key].resultSetID
          /\ DOMAIN rs[key].defRangeIDs # {}
          /\ \A docID \in DOMAIN rs[key].defRangeIDs : Len(rs[key].defRangeIDs[docID]) >= 1

\* the global tables agree, and so do the local tables of every file
TablesAgree(fs, ds, rs) ==
    /\ Agree(ds, rs)
    /\ \A u \in DOMAIN fs : Agree(fs[u].localDefs, fs[u].localRefs)

\* the file with its occurrences after the first k left out
UpTo(fi, k) == [fi EXCEPT !.document.Occurrences = SubSeq(@, 1, k)]

\* the symbols of the occurrences of the registered documents
SymbolsUsed ==
    UNION {{files[u].document.Occurrences[k].Symbol :
                k \in 1..Len(files[u].document.Occurrences)} : u \in DOMAIN files}

\* C26: in every state, and in pass D after every occurrence of the file
\* being indexed, the key sets of Defs and Refs and of every document's
\* LocalDefs and LocalRefs are the same with the same result set under each
\* key, and every reference result lists at least one defining range; so
\* in pass U every lookup from a file still to be indexed that finds a
\* definition finds its reference result, and the link-up loop finds the
\* reference result of every defining occurrence
C26_TablesAgree ==
    /\ TablesAgree(files, defs, refs)
    /\ pc = "defs" =>
          \A u \in todo : \A k \in 0..Len(files[u].document.Occurrences) :
              LET r == indexDbDefs(w, UpTo(files[u], k), defs, refs, u)
              IN  Agree(r.defs, r.refs) /\ Agree(r.fi.localDefs, r.fi.localRefs)
    /\ pc = "uses" =>
          \A u \in todo : \A symbol \in SymbolsUsed :
              LET r == getDefAndRefInfo(files[u], defs, refs, symbol)
              IN  r.found => r.hasRef
    /\ PassDOver =>
          \A d \in OccsWithRole(DEFINITION) :
              LET key == OccAt(d[1], d[2]).Symbol
              IN  IF HasPrefix(key, LocalPrefix)
                  THEN key \in DOMAIN files[d[1]].localRefs
                  ELSE key \in DOMAIN refs

\* the link-up loop stands at a defining occurrence of a global symbol
\* whose reference result lists defining ranges of two documents, and a
\* document has a local definition
C26_Witness ==
    /\ pc = "link" /\ linkDoc # ""
    /\ linkIdx <= Len(files[linkDoc].document.Occurrences)
    /\ OccAt(linkDoc, linkIdx).Role = DEFINITION
    /\ OccAt(linkDoc, linkIdx).Symbol \in DOMAIN refs
    /\ Cardinality(DOMAIN refs[OccAt(linkDoc, linkIdx).Symbol].defRangeIDs) = 2
    /\ \E u \in DOMAIN files : files[u].localDefs # EmptyMap

----------------------------------------------------------------------------
(* C27 *)

\* the ids an edge names as its targets: the keys of the bag of a contains
\* edge, the elements of the list of any other edge
InVIDs(r) ==
    IF r.label = "contains" THEN DOMAIN r.inVs
    ELSE {r.inVs[i] : i \in 1..Len(r.inVs)}

\* the id is that of a vertex with one of the labels, emitted before the
\* record at position k and with a smaller id
Earlier(id, labels, k) ==
    \E i \in 1..(k - 1) :
        /\ Out[i].id = id /\ Out[i].id < Out[k].id
        /\ Out[i].type = "vertex" /\ Out[i].label \in labels

\* the labels of the vertices an edge with the given label leaves from
SourceLabels(r) ==
    CASE r.label = "next"                    -> {"range"}
      [] r.label = "textDocument/definition" -> {"resultSet"}
      [] r.label = "textDocument/hover"      -> {"resultSet"}
      [] r.label = "textDocument/references" -> {"resultSet", "range"}
      [] r.label = "item"                    -> {"definitionResult", "referenceResult"}
      [] r.label = "contains"                -> {"project", "document"}

\* the labels of the vertices the edge may lead to
TargetLabels(k) ==
    LET r == Out[k]
    IN  CASE r.label = "next"                    -> {"resultSet"}
          [] r.label = "textDocument/definition" -> {"definitionResult"}
          [] r.label = "textDocument/hover"      -> {"hoverResult"}
          [] r.label = "textDocument/references" -> {"referenceResult"}
          [] r.label = "item"                    -> {"range"}
          [] r.label = "contains" ->
                IF Earlier(r.outV, {"project"}, k) THEN {"document"} ELSE {"range"}

\* the edge at position k names vertices of the expected kinds emitted
\* before it, and never the id 0
WellFormedEdge(k) ==
    LET r == Out[k]
    IN  /\ r.outV # 0 /\ 0 \notin InVIDs(r)
        /\ r.label \in {"next", "textDocument/definition", "textDocument/hover",
                        "textDocument/references", "item", "contains"}
        /\ Earlier(r.outV, SourceLabels(r), k)
        /\ InVIDs(r) # {}
        /\ \A id \in InVIDs(r) : Earlier(id, TargetLabels(k), k)
        /\ r.label = "item" => Earlier(r.document, {"document"}, k)

\* C27: every edge of the output names, as its source, its targets and,
\* for an item edge, its document, vertices of the expected kinds that were
\* emitted before it with smaller ids, and no edge names the id 0
C27_NoDanglingReference ==
    \A k \in 1..Len(Out) : Out[k].type = "edge" => WellFormedEdge(k)

\* the finished output holds an edge of every kind, among them references
\* from a range, item edges of a definition result and of a reference
\* result, and the contains edges of the project and of a document
C27_Witness ==
    /\ Finished
    /\ \A l \in {"next", "textDocument/definition", "textDocument/hover"} :
          \E k \in 1..Len(Out) : Out[k].type = "edge" /\ Out[k].label = l
    /\ \E k \in 1..Len(Out) :
          Out[k].label = "textDocument/references" /\ Earlier(Out[k].outV, {"range"}, k)
    /\ \E k \in 1..Len(Out) :
          Out[k].label = "textDocument/references" /\ Earlier(Out[k].outV, {"resultSet"}, k)
    /\ \E k \in 1..Len(Out) :
          Out[k].label = "item" /\ Earlier(Out[k].outV, {"definitionResult"}, k)
    /\ \E k \in 1..Len(Out) :
          Out[k].label = "item" /\ Out[k].property = "references"
    /\ \E k \in 1..Len(Out) :
          Out[k].label = "contains" /\ Earlier(Out[k].outV, {"document"}, k)

----------------------------------------------------------------------------
(* C28 *)

\* the id is that of the document vertex emitted for uri
IsDocumentOf(id, uri) == \E v \in DocumentVertices(uri) : Out[v].id = id

\* the positions of the item edges that list the id among their ranges
ItemsListing(id) == {k \in 1..Len(Out) : Out[k].label = "item" /\ id \in InVIDs(Out[k])}

\* the positions of the contains edges of documents that list the id
ContainsListing(id) ==
    {k \in 1..Len(Out) : Out[k].label = "contains" /\ Out[k].pass = "L"
                         /\ id \in InVIDs(Out[k])}

\* index() has left the link-up loop
PassLOver == pc \in {"stats", "done"} \/ (pc = "exited" /\ exit = 0)

\* C28: every id an item edge lists is the id of a range vertex emitted for
\* an occurrence of the document whose vertex the edge names as its
\* document; a range is listed by the contains edge of at most one
\* document, of exactly one once the link-up loop is over, and that edge
\* leaves from the vertex of the range's document, which is the document
\* named by every item edge listing the range
C28_Partition ==
    /\ \A k \in 1..Len(Out) :
          Out[k].label = "item" =>
              \A id \in InVIDs(Out[k]) :
                  \E i \in RangeVertices :
                      Out[i].id = id /\ IsDocumentOf(Out[k].document, Out[i].uri)
    /\ \A i \in RangeVertices :
          /\ Cardinality(ContainsListing(Out[i].id)) <= 1
          /\ PassLOver => Cardinality(ContainsListing(Out[i].id)) = 1
          /\ \A c \in ContainsListing(Out[i].id) :
                /\ IsDocumentOf(Out[c].outV, Out[i].uri)
                /\ \A k \in ItemsListing(Out[i].id) : Out[k].document = Out[c].outV

\* a finished run over two documents in which the reference result of one
\* symbol has item edges for the ranges of both
TwoDocumentsLinked ==
    /\ Finished
    /\ \E j, k \in 1..Len(Out) :
          /\ Out[j].label = "item" /\ Out[k].label = "item"
          /\ Out[j].outV = Out[k].outV
          /\ Out[j].document # Out[k].document
          /\ Out[j].property = "definitions" /\ Out[k].property = "references"
    /\ \E i, j \in RangeVertices :
          Out[i].uri # Out[j].uri /\ ContainsListing(Out[i].id) # ContainsListing(Out[j].id)

----------------------------------------------------------------------------
(* C29 *)

\* the registry as loadDatabases left it: every document with its symbols
\* and nothing indexed yet
Registry == [u \in DOMAIN files |-> NewFileInfo(files[u].document, files[u].symbols)]

\* lines 218-224 on a new emitter
FramesOfProject ==
    EmitProject(EmitMetaData(NewEmitter, "file://.", Tag("frames", "", 0)),
                LanguageScala, Tag("frames", "", 0))

RECURSIVE DocsIn(_, _, _)
\* indexDbDocs visiting the files in the given order, from its k-th on
DocsIn(st, order, k) ==
    IF k > Len(order) THEN st
    ELSE LET uri == order[k]
             w1  == EmitDocument(st.w, LanguageScala, uri, Tag("frames", uri, 0))
             w2  == EmitContains(w1, FramesOfProject.id, BagOf(<<w1.id>>), Tag("frames", uri, 0))
         IN  DocsIn([st EXCEPT !.w = w2, !.files[uri].docID = w1.id], order, k + 1)

RECURSIVE DefsIn(_, _, _)
\* the loop at lines 227-233 visiting the files in the given order
DefsIn(st, order, k) ==
    IF k > Len(order) THEN st
    ELSE LET uri == order[k]
             r   == indexDbDefs(st.w, st.files[uri], st.defs, st.refs, uri)
         IN  DefsIn([w |-> r.w, files |-> [st.files EXCEPT ![uri] = r.fi],
                     defs |-> r.defs, refs |-> r.refs], order, k + 1)

RECURSIVE UsesIn(_, _, _)
\* the loop at lines 235-241 visiting the files in the given order
UsesIn(st, order, k) ==
    IF k > Len(order) THEN st
    ELSE LET uri == order[k]
             r   == indexDbUses(st.w, st.files[uri], st.defs, st.refs, uri)
         IN  UsesIn([w |-> r.w, files |-> [st.files EXCEPT ![uri] = r.fi],
                     defs |-> st.defs, refs |-> r.refs], order, k + 1)

RECURSIVE LinkOccurrencesIn(_, _, _, _)
\* lines 250-279 for the occurrences of the file from the k-th on, the item
\* loops visiting the documents in some one order
LinkOccurrencesIn(e, st, uri, k) ==
    LET fi == st.files[uri]
    IN  IF k > Len(fi.document.Occurrences) THEN e
        ELSE LET occurrence == fi.document.Occurrences[k]
                 key        == occurrence.Symbol
                 table      == IF HasPrefix(key, LocalPrefix) THEN fi.localRefs ELSE st.refs
                 e1 == IF occurrence.Role # DEFINITION \/ key \notin DOMAIN table THEN e
                       ELSE LinkRefResult(e, table[key],
                                CHOOSE o \in Orders(DOMAIN table[key].defRangeIDs) : TRUE,
                                CHOOSE o \in Orders(DOMAIN table[key].refRangeIDs) : TRUE,
                                Tag("L", uri, k))
             IN  LinkOccurrencesIn(e1, st, uri, k + 1)

RECURSIVE LinkIn(_, _, _)
\* the link-up loop visiting the files in the given order
LinkIn(st, order, k) ==
    IF k > Len(order) THEN st
    ELSE LET uri == order[k]
             fi  == st.files[uri]
             e1  == LinkOccurrencesIn(st.w, st, uri, 1)
             e2  == IF Len(fi.defRangeIDs) > 0 \/ Len(fi.useRangeIDs) > 0
                    THEN EmitContains(e1, fi.docID, AllRanges(fi), Tag("L", uri, 0))
                    ELSE e1
         IN  LinkIn([st EXCEPT !.w = e2], order, k + 1)

\* index() on the registry fs, its four loops visiting the files in the
\* orders o[1] (document frames), o[2] (pass D), o[3] (pass U), o[4] (link-up)
RunIn(fs, o) ==
    LET s0 == [w |-> FramesOfProject, files |-> fs, defs |-> EmptyMap, refs |-> EmptyMap]
        s1 == DocsIn(s0, o[1], 1)
        s2 == DefsIn(s1, o[2], 1)
        s3 == UsesIn(s2, o[3], 1)
    IN  LinkIn(s3, o[4], 1)

\* the labels of the records, the item edges told apart by their property
Kinds ==
    {<<l, "">> : l \in {"metaData", "project", "document", "range", "resultSet",
                        "definitionResult", "referenceResult", "hoverResult", "next",
                        "textDocument/definition", "textDocument/references",
                        "textDocument/hover", "item", "contains"}}
    \cup {<<"item", "definitions">>, <<"item", "references">>}

\* how many records of each kind the output holds
CountsOf(out) ==
    [kind \in Kinds |->
        Cardinality({i \in 1..Len(out) : out[i].label = kind[1] /\ out[i].property = kind[2]})]

\* what pass U resolved the referring occurrence o to: the keys of the
\* definitions, global or local to its document, whose result set the
\* range of o was linked to; none if it was left unresolved
ResolutionOf(st, o) ==
    LET Mine(r) == r.pass = "U" /\ r.uri = o[1] /\ r.occ = o[2]
        recs    == SelectSeq(st.w.out, Mine)
    IN  IF Len(recs) >= 2 /\ recs[2].label = "next"
        THEN {<<"global", key>> : key \in {x \in DOMAIN st.refs :
                                     st.refs[x].resultSetID = recs[2].inVs[1]}}
             \cup {<<"local", key>> : key \in {x \in DOMAIN st.files[o[1]].localRefs :
                                     st.files[o[1]].localRefs[x].resultSetID = recs[2].inVs[1]}}
        ELSE {}

\* what a run shows whatever ids it gave out: the number of records of each
\* kind, what every referring occurrence resolved to, and the Stats
Observables(st) ==
    [counts     |-> CountsOf(st.w.out),
     resolution |-> [o \in OccsWithRole(REFERENCE) |-> ResolutionOf(st, o)],
     stats      |-> [NumFiles    |-> Cardinality(DOMAIN st.files),
                     NumDefs     |-> Cardinality(DOMAIN st.defs)
                                     + SumLocalDefs(st.files, DOMAIN st.files),
                     NumElements |-> NumElements(st.w)]]

\* C29: a finished run shows the same number of records of each kind, the
\* same resolution of every referring occurrence and the same Stats as the
\* run over the same registered documents whose loops visit them in any one
\* order, so any two runs over the same documents do, however their loops
\* visit the documents
C29_OrderIndependent ==
    Finished =>
        LET mine == Observables([w |-> w, files |-> files, defs |-> defs, refs |-> refs])
        IN  \A o \in Orders(DOMAIN files) :
                LET other == Observables(RunIn(Registry, <<o, o, o, o>>))
                IN  mine = other /\ stats = other.stats

\* a finished run over two documents, one referring to a global symbol the
\* other defines and to one no document defines
C29_Witness ==
    /\ Finished
    /\ Cardinality(DOMAIN files) = 2
    /\ \E r \in OccsWithRole(REFERENCE), d \in OccsWithRole(DEFINITION) :
          /\ r[1] # d[1]
          /\ OccAt(r[1], r[2]).Symbol = OccAt(d[1], d[2]).Symbol
          /\ ResolutionOf([w |-> w, files |-> files, defs |-> defs, refs |-> refs], r)
                = {<<"global", gX>>}
    /\ \E r \in OccsWithRole(REFERENCE) :
          ResolutionOf([w |-> w, files |-> files, defs |-> defs, refs |-> refs], r) = {}

====
